---- MODULE Spec2Model ----
(***************************************************************************)
(* Timeline wait/signal futures of libspa (buffer/meta.rs) over the DRM    *)
(* syncobj adapter (drm.rs), and the buffer accessors of pipewire          *)
(* (buffer.rs).                                                            *)
(*                                                                         *)
(* Spec, LiveSpec, SpecStorm, SpecFds: one future is under observation per *)
(* behaviour (op): a SyncObjTimelineWaiter, a SyncFuture or a              *)
(* SyncObjTimelineSignaler.  The kernel, the tokio I/O driver, the         *)
(* executor and the clock are the environment.  The result of an ioctl is  *)
(* an environment choice; the only thing fixed per descriptor is whether   *)
(* it answers DRM_IOCTL_VERSION.                                           *)
(* SpecDma: SyncTimelineRef::sync_dma_buf, a waiter followed by a signaler. *)
(* SpecBuffer: the extraction of sync descriptors and of the sync-timeline *)
(* metadata from a buffer.  SpecDrm: find_drm_device_fd, fd_to_drm_handle  *)
(* and DrmDeviceFd over a table of open descriptors.  SpecTimeline: the    *)
(* block behind a SyncTimelineRef.                                         *)
(* SpecAcquire: TimelineAcquireFuture of pipewire's async_v/buffer.rs and   *)
(* the threads it spawns.  SpecTmr: the TMR cell of async_v/utils.rs under  *)
(* single-event upsets.  SpecTimeout, SpecTimeoutLive: TimeoutFuture around *)
(* a oneshot receiver.  SpecStream: the hand-over of a stream's pw_buffers  *)
(* between the stream, Buffer values and raw pointers.                      *)
(* SpecQueue: BoundedQueue of async_v/utils.rs.  SpecContext: start, stop   *)
(* and drop of an AsyncContext called from several threads.  SpecLock: the  *)
(* async_v operations that take the thread-loop lock.  SpecCoreSync: the    *)
(* sequence numbers of AsyncCore::sync over clones of one core.  SpecList:  *)
(* the collecting loop of AsyncRegistry::list_objects against the loop      *)
(* thread.  SpecView: the Arc that SyncTimelineRef::from_raw builds over    *)
(* buffer memory.  SpecLoop: the property setters and getters of a loop.    *)
(***************************************************************************)
EXTENDS Integers, Sequences, FiniteSets, TLC

\* ------------------------------------------------------------------ bounds
MaxPoint == 2          \* timeline points range over 0..MaxPoint
MaxTime == 6           \* the clock stops after MaxTime seconds
MaxPolls == 3          \* polls of one future in the general specification
ShortTimeout == 1      \* a caller-chosen with_timeout value, in seconds
MaxDatas == 3          \* data elements of a buffer
MaxMetas == 3          \* metadata blocks of a buffer
MaxCard == 2           \* /dev/dri/card0..cardMaxCard vary; of the others only the last
MaxDevs == 2           \* DrmDeviceFd objects created in one behaviour
MaxRefs == 2           \* SyncTimelineRef values sharing one block
MaxVal == 2            \* a TMR cell holds values 0..MaxVal
MaxBufs == 3           \* pw_buffers of one stream
ShortMaxPolls == 2     \* a caller-chosen max_polls of a TimeoutFuture
MaxCap == 3            \* capacities N of a BoundedQueue range over 1..MaxCap
MaxPushes == 5         \* push calls on one BoundedQueue
MaxThreads == 2        \* threads calling into one AsyncContext
MaxLoopCalls == 4      \* start and stop calls one thread loop receives
MaxOps == 3            \* async operations made one after the other
MaxHandles == 2        \* AsyncCore values of one core connection
MaxSyncs == 3          \* sync calls on one core connection
MaxGlobals == 4        \* globals the registry announces during one list_objects
MaxWord == 3           \* the words in front of a metadata block hold 0..MaxWord
MaxViews == 3          \* views made of one metadata block

\* ------------------------------------------------------- program constants
DefaultTimeout == 5            \* Duration::from_secs(5)
NumCards == 16                 \* for i in 0..16
DefaultMaxSuspensions == 1000  \* max_polls: 1000
SyncTimelineTag == 9           \* meta.type_ == 9

\* ------------------------------------------------------------ descriptors
\* BadFd is the -1 that SyncFuture hands to its inner waiter; SyncobjFd is an
\* exported syncobj descriptor (no DRM device node: the version ioctl fails
\* on it); DrmFd is a descriptor that answers the version ioctl.
BadFd == "fd_minus_one"
SyncobjFd == "syncobj_fd"
DrmFd == "drm_answering_fd"
Fds == {BadFd, SyncobjFd, DrmFd}
NoFd == -1      \* a descriptor number that is none: None, or the -1 of a failed call

Timeouts == {ShortTimeout, DefaultTimeout}
Points == 0..MaxPoint

\* /dev/dri/card0 .. card15: "absent" (open fails), "other" (opens, no DRM
\* device), "drm" (opens and answers the version ioctl).
Cards == 0..(NumCards - 1)
NoCard == [i \in Cards |-> "absent"]
CardZero == [i \in Cards |-> IF i = 0 THEN "drm" ELSE "absent"]
CardLater == [i \in Cards |-> IF i = 0 THEN "other" ELSE IF i = 3 THEN "drm" ELSE "absent"]
CardConfigs == {NoCard, CardZero, CardLater}

Errors == {"ErrTimeout", "ErrInvalidFd", "ErrQuery", "ErrEventfdSetup",
           "ErrEventfdPoll", "ErrEventfdRead", "ErrFindDevice", "ErrHandle",
           "ErrRegister", "ErrSignal"}

VARIABLES
  op,            \* which future is polled: "wait", "sync" or "signal"
  w,             \* its fields
  cards,         \* the /dev/dri directory
  now,           \* seconds since the future's start_time
  kpoint,        \* value of the kernel timeline the future refers to
  pc,            \* "idle", or "polling" inside a waiter poll
  npolls,        \* polls started
  pollLate,      \* the current or last poll read an elapsed time beyond the timeout
  last,          \* what the last finished poll returned
  calls,         \* kernel-facing calls of the current or last poll, in order
  efdCounter,    \* counter of the waiter's eventfd
  efdRegistered, \* the kernel holds a registration of the eventfd
  ready,         \* read readiness cached by the AsyncFd
  wakerReg,      \* the task's waker is stored for read readiness
  woken,         \* the task has been woken since its last poll
  pendings,      \* polls that returned Pending
  maxQuery,      \* greatest value a timeline query returned, -1 if none
  lastQuery,     \* value the most recent timeline query returned, -1 if none
  kWrote,        \* the kernel has written the eventfd
  failed,        \* kernel calls of the current or last waiter poll that failed
  tmpOpen,       \* temporary DRM device descriptors the waiter holds open
  efdOpen,       \* eventfds of the waiter that are open
  efdMade,       \* eventfds the waiter has created
  dropped,       \* the waiter has been destroyed
  dma,           \* the sync_dma_buf call in progress, if any
  buffer,        \* the spa_buffer behind a pipewire Buffer
  got,           \* what the last adapter or buffer call returned
  fdtab,         \* descriptors open in the process
  devs,          \* live DrmDeviceFd objects and the descriptor each holds
  closes,        \* close(2) calls so far, per descriptor
  tl,            \* the spa_meta_sync_timeline block behind a SyncTimelineRef
  acq,           \* a TimelineAcquireFuture and the threads it has spawned
  tf,            \* a TimeoutFuture and the future it wraps
  tmr,           \* the three copies of a TMR cell
  pool,          \* the pw_buffers of a stream and who holds each
  bq,            \* a BoundedQueue and the calls made on it
  ctx,           \* an AsyncContext, its thread loop and the calls in progress
  lk,            \* the thread-loop lock and the async operation using it
  syn,           \* the sync calls in flight on one core connection
  lst,           \* a list_objects call, its channel and the loop thread
  arc,           \* the memory around a metadata block viewed through an Arc
  lp             \* a pw_loop and the last call made on it

vars == <<op, w, cards, now, kpoint, pc, npolls, pollLate, last, calls,
          efdCounter, efdRegistered, ready, wakerReg, woken, pendings,
          maxQuery, lastQuery, kWrote, failed, tmpOpen, efdOpen, efdMade,
          dropped, dma, buffer, got, fdtab, devs, closes, tl, acq, tf, tmr, pool,
          bq, ctx, lk, syn, lst, arc, lp>>

envVars == <<cards, kpoint>>
efdVars == <<efdCounter, efdRegistered, ready, wakerReg>>
histVars == <<maxQuery, lastQuery, kWrote>>
fdVars == <<tmpOpen, efdOpen, efdMade, dropped>>
drmVars == <<fdtab, devs, closes>>
\* what the timeline futures leave alone
auxVars == <<dma, buffer, got, drmVars, tl>>
\* the state of the async_v wrappers and of the stream's buffer pool
wrapVars == <<bq, ctx, lk, syn, lst, arc, lp>>
asyncVars == <<acq, tf, tmr, pool, wrapVars>>

Max(a, b) == IF a >= b THEN a ELSE b

\* --------------------------------------------------------------- drm.rs
\* A probe that accepts every descriptor.
is_drm_fd_any(fd) == fd \in Fds

is_drm_fd(fd) == fd = DrmFd

RECURSIVE FirstDrmCard(_, _)
FirstDrmCard(cs, i) ==
  IF i >= NumCards THEN -1
  ELSE IF cs[i] = "drm" THEN i
  ELSE FirstDrmCard(cs, i + 1)

\* "Ok" with the duplicate of the first card that validates, "DupFailed"
\* when dup fails on it, "NotFound" when no card validates.
find_drm_device_fd(cs, dupOk) ==
  IF FirstDrmCard(cs, 0) < 0 THEN "NotFound"
  ELSE IF dupOk THEN "Ok" ELSE "DupFailed"

\* The device is not validated before the conversion.
fd_to_drm_handle_unchecked(devValid, syncobj_fd, convOk) ==
  IF convOk /\ syncobj_fd # BadFd THEN "Ok" ELSE "OsError"

\* devValid: the device answers the version ioctl; convOk: the
\* FD_TO_HANDLE ioctl returns 0.  The conversion of -1 cannot succeed.
fd_to_drm_handle(devValid, syncobj_fd, convOk) ==
  IF ~devValid THEN "InvalidInput"
  ELSE IF convOk /\ syncobj_fd # BadFd THEN "Ok" ELSE "OsError"

\* ------------------------------------------------------ meta.rs, waiter
NewWaiter(fd, point, timeout) ==
  [timeline_fd |-> fd, timeline_point |-> point, timeout |-> timeout,
   event_fd |-> FALSE, completed |-> FALSE]

DeadlineElapsed(elapsed, timeout) == elapsed > timeout

\* The comparison turned around.
PointReached_reversed(signaled_point, timeline_point) == signaled_point <= timeline_point

PointReached(signaled_point, timeline_point) == signaled_point >= timeline_point

\* The completed and point-0 checks moved in front of the deadline check.
EarlyOutcome_deadline_late(wt, elapsed) ==
  IF wt.completed THEN [res |-> "Ok", calls |-> <<>>]
  ELSE IF wt.timeline_point = 0 THEN [res |-> "Ok", calls |-> <<>>]
  ELSE IF DeadlineElapsed(elapsed, wt.timeout) THEN [res |-> "ErrTimeout", calls |-> <<>>]
  ELSE IF ~is_drm_fd(wt.timeline_fd) THEN [res |-> "ErrInvalidFd", calls |-> <<"is_drm_fd">>]
  ELSE [res |-> "go", calls |-> <<"is_drm_fd">>]

\* The descriptor probe moved in front of the point-0 check.
EarlyOutcome_probe_first(wt, elapsed) ==
  IF DeadlineElapsed(elapsed, wt.timeout) THEN [res |-> "ErrTimeout", calls |-> <<>>]
  ELSE IF wt.completed THEN [res |-> "Ok", calls |-> <<>>]
  ELSE IF ~is_drm_fd(wt.timeline_fd) THEN [res |-> "ErrInvalidFd", calls |-> <<"is_drm_fd">>]
  ELSE IF wt.timeline_point = 0 THEN [res |-> "Ok", calls |-> <<"is_drm_fd">>]
  ELSE [res |-> "go", calls |-> <<"is_drm_fd">>]

\* The completed flag is not consulted.
EarlyOutcome_forgets_completed(wt, elapsed) ==
  IF DeadlineElapsed(elapsed, wt.timeout) THEN [res |-> "ErrTimeout", calls |-> <<>>]
  ELSE IF wt.timeline_point = 0 THEN [res |-> "Ok", calls |-> <<>>]
  ELSE IF ~is_drm_fd(wt.timeline_fd) THEN [res |-> "ErrInvalidFd", calls |-> <<"is_drm_fd">>]
  ELSE [res |-> "go", calls |-> <<"is_drm_fd">>]

\* The checks at the head of SyncObjTimelineWaiter::poll, in order; "go"
\* when the poll goes on to check_timeline_point.
EarlyOutcome(wt, elapsed) ==
  IF DeadlineElapsed(elapsed, wt.timeout) THEN [res |-> "ErrTimeout", calls |-> <<>>]
  ELSE IF wt.completed THEN [res |-> "Ok", calls |-> <<>>]
  ELSE IF wt.timeline_point = 0 THEN [res |-> "Ok", calls |-> <<>>]
  ELSE IF ~is_drm_fd(wt.timeline_fd) THEN [res |-> "ErrInvalidFd", calls |-> <<"is_drm_fd">>]
  ELSE [res |-> "go", calls |-> <<"is_drm_fd">>]

\* check_timeline_point: "true", "false" or "err", with the calls it made.
check_timeline_point(wt, cs, dupOk, convOk, queryOk, signaled_point) ==
  IF find_drm_device_fd(cs, dupOk) # "Ok"
    THEN [res |-> "err", calls |-> <<"find_drm_device_fd">>]
  ELSE IF fd_to_drm_handle(TRUE, wt.timeline_fd, convOk) # "Ok"
    THEN [res |-> "err", calls |-> <<"find_drm_device_fd", "fd_to_drm_handle">>]
  ELSE IF ~queryOk
    THEN [res |-> "err",
          calls |-> <<"find_drm_device_fd", "fd_to_drm_handle", "drm_syncobj_timeline_query">>]
  ELSE [res |-> IF PointReached(signaled_point, wt.timeline_point) THEN "true" ELSE "false",
        calls |-> <<"find_drm_device_fd", "fd_to_drm_handle", "drm_syncobj_timeline_query">>]

\* A poll returns res.
Return(res) ==
  /\ last' = res
  /\ pc' = "idle"
  /\ pendings' = IF res = "Pending" THEN pendings + 1 ELSE pendings

\* The calls among c that the environment made fail: the device lookup, the
\* fd-to-handle conversion, and the third call of the sequence (the timeline
\* query or the eventfd registration).
FailedAmong(c, wt, cs, dupOk, convOk, third, thirdOk) ==
  {x \in ( (IF find_drm_device_fd(cs, dupOk) # "Ok" THEN {"find_drm_device_fd"} ELSE {})
         \cup (IF fd_to_drm_handle(TRUE, wt.timeline_fd, convOk) # "Ok"
                THEN {"fd_to_drm_handle"} ELSE {})
         \cup (IF thirdOk THEN {} ELSE {third}) ) :
     \E i \in 1..Len(c) : c[i] = x}

\* The DrmDeviceFd bound to a local is never closed.
DeviceScope_leaks(findRes) ==
  IF findRes = "Ok" THEN [opened |-> 1, closed |-> 0] ELSE [opened |-> 0, closed |-> 0]

\* `let drm_device = find_drm_device_fd()?`: a successful lookup leaves one
\* descriptor open, and Drop closes it when the binding goes out of scope
\* (at the return of check_timeline_point, or of poll).
DeviceScope(findRes) ==
  IF findRes = "Ok" THEN [opened |-> 1, closed |-> 1] ELSE [opened |-> 0, closed |-> 0]

\* First half of SyncObjTimelineWaiter::poll: the deadline, completed, point 0
\* and descriptor checks, then check_timeline_point.
PollBegin(cap) ==
  /\ op = "wait" /\ pc = "idle" /\ npolls < cap /\ ~dropped
  /\ npolls' = npolls + 1
  /\ pollLate' = (now > w.timeout)
  /\ woken' = FALSE
  /\ LET early == EarlyOutcome(w, now) IN
     IF early.res # "go"
       THEN /\ Return(early.res)
            /\ calls' = early.calls
            /\ failed' = {}
            /\ UNCHANGED <<w, maxQuery, lastQuery, tmpOpen>>
       ELSE \E dupOk, convOk, queryOk \in BOOLEAN :
              LET chk == check_timeline_point(w, cards, dupOk, convOk, queryOk, kpoint)
                  queried == chk.res \in {"true", "false"}
                  dev == DeviceScope(find_drm_device_fd(cards, dupOk))
              IN /\ calls' = early.calls \o chk.calls
                 /\ failed' = FailedAmong(chk.calls, w, cards, dupOk, convOk,
                                          "drm_syncobj_timeline_query", queryOk)
                 /\ tmpOpen' = tmpOpen + dev.opened - dev.closed
                 /\ lastQuery' = IF queried THEN kpoint ELSE lastQuery
                 /\ maxQuery' = IF queried THEN Max(maxQuery, kpoint) ELSE maxQuery
                 /\ IF chk.res = "true"
                      THEN /\ w' = [w EXCEPT !.completed = TRUE]
                           /\ Return("Ok")
                    ELSE IF chk.res = "err"
                      THEN /\ Return("ErrQuery")
                           /\ UNCHANGED w
                    ELSE /\ pc' = "polling"
                         /\ UNCHANGED <<w, last, pendings>>
  /\ UNCHANGED <<asyncVars, op, now, envVars, efdVars, kWrote>>
  /\ UNCHANGED <<efdOpen, efdMade, dropped, auxVars>>

\* A failed registration ioctl is taken for a registration: Pending.
RegisterOutcome_swallows_error(wt, cs, dupOk, convOk, regOk) ==
  IF find_drm_device_fd(cs, dupOk) # "Ok"
    THEN [res |-> "ErrFindDevice", calls |-> <<"find_drm_device_fd">>]
  ELSE IF fd_to_drm_handle(TRUE, wt.timeline_fd, convOk) # "Ok"
    THEN [res |-> "ErrHandle", calls |-> <<"find_drm_device_fd", "fd_to_drm_handle">>]
  ELSE [res |-> "Pending",
        calls |-> <<"find_drm_device_fd", "fd_to_drm_handle", "drm_syncobj_eventfd_register">>]

\* Registration at the end of poll: device lookup, fd-to-handle, the eventfd
\* ioctl; Pending when all three succeed.
RegisterOutcome(wt, cs, dupOk, convOk, regOk) ==
  IF find_drm_device_fd(cs, dupOk) # "Ok"
    THEN [res |-> "ErrFindDevice", calls |-> <<"find_drm_device_fd">>]
  ELSE IF fd_to_drm_handle(TRUE, wt.timeline_fd, convOk) # "Ok"
    THEN [res |-> "ErrHandle", calls |-> <<"find_drm_device_fd", "fd_to_drm_handle">>]
  ELSE IF ~regOk
    THEN [res |-> "ErrRegister",
          calls |-> <<"find_drm_device_fd", "fd_to_drm_handle", "drm_syncobj_eventfd_register">>]
  ELSE [res |-> "Pending",
        calls |-> <<"find_drm_device_fd", "fd_to_drm_handle", "drm_syncobj_eventfd_register">>]

\* What the read of a ready eventfd leads to: "Ok" when 8 bytes were read,
\* "ErrEventfdRead" on a read error, "go" when the read would block.
ReadOutcome(counter, readErr) ==
  IF readErr THEN "ErrEventfdRead"
  ELSE IF counter > 0 THEN "Ok"
  ELSE "go"

\* The tail of poll: the eventfd exists; register it and return.
RegisterAndReturn(c, wasReady) ==
  \E dupOk, convOk, regOk \in BOOLEAN :
    LET reg == RegisterOutcome(w, cards, dupOk, convOk, regOk)
        dev == DeviceScope(find_drm_device_fd(cards, dupOk))
    IN
    /\ Return(reg.res)
    /\ calls' = c \o reg.calls
    /\ failed' = FailedAmong(reg.calls, w, cards, dupOk, convOk,
                             "drm_syncobj_eventfd_register", regOk)
    /\ tmpOpen' = tmpOpen + dev.opened - dev.closed
    /\ w' = [w EXCEPT !.event_fd = TRUE]
    /\ ready' = FALSE
    /\ wakerReg' = IF wasReady THEN wakerReg ELSE TRUE
    /\ efdRegistered' = IF reg.res = "Pending" THEN TRUE ELSE efdRegistered
    /\ UNCHANGED efdCounter

\* Second half of SyncObjTimelineWaiter::poll: eventfd set-up, readiness and
\* read, registration, Pending.
PollFinish ==
  /\ op = "wait" /\ pc = "polling"
  /\ IF ~w.event_fd
       THEN \/ /\ Return("ErrEventfdSetup")          \* eventfd() fails
               /\ calls' = calls \o <<"eventfd">>
               /\ failed' = {"eventfd"}
               /\ UNCHANGED <<w, efdVars, tmpOpen, efdOpen, efdMade>>
            \/ /\ Return("ErrEventfdSetup")          \* AsyncFd::new fails and drops the File
               /\ calls' = calls \o <<"eventfd">>
               /\ failed' = {"eventfd"}
               /\ efdMade' = efdMade + 1
               /\ UNCHANGED <<w, efdVars, tmpOpen, efdOpen>>
            \/ /\ Return("ErrEventfdPoll")
               /\ calls' = calls \o <<"eventfd">>
               /\ failed' = {}
               /\ w' = [w EXCEPT !.event_fd = TRUE]
               /\ efdMade' = efdMade + 1
               /\ efdOpen' = efdOpen + 1
               /\ UNCHANGED <<efdVars, tmpOpen>>
            \/ /\ RegisterAndReturn(calls \o <<"eventfd">>, FALSE)
               /\ efdMade' = efdMade + 1
               /\ efdOpen' = efdOpen + 1
       ELSE \/ /\ Return("ErrEventfdPoll")
               /\ failed' = {}
               /\ UNCHANGED <<w, calls, efdVars, tmpOpen, efdOpen, efdMade>>
            \/ /\ ~ready
               /\ RegisterAndReturn(calls, FALSE)
               /\ UNCHANGED <<efdOpen, efdMade>>
            \/ /\ ready
               /\ UNCHANGED <<efdOpen, efdMade>>
               /\ \E readErr \in BOOLEAN :
                    LET rd == ReadOutcome(efdCounter, readErr) IN
                    IF rd = "go"
                      THEN RegisterAndReturn(calls \o <<"read">>, TRUE)
                      ELSE /\ Return(rd)
                           /\ calls' = calls \o <<"read">>
                           /\ failed' = IF readErr THEN {"read"} ELSE {}
                           /\ w' = [w EXCEPT !.completed = (rd = "Ok")]
                           /\ efdCounter' = IF rd = "Ok" THEN 0 ELSE efdCounter
                           /\ UNCHANGED <<efdRegistered, ready, wakerReg, tmpOpen>>
  /\ UNCHANGED <<asyncVars, op, now, envVars, npolls, pollLate, woken, histVars>>
  /\ UNCHANGED <<dropped, auxVars>>

\* ------------------------------------------------------ meta.rs, SyncFuture
InnerTimeout == 0   \* Duration::from_millis(100): below the clock's resolution

\* The poll of the waiter that SyncFuture::poll builds on descriptor -1.  Its
\* check_timeline_point cannot answer "false" (the conversion of -1 fails),
\* so the poll never reaches the eventfd.
InnerPoll(wt, elapsed, cs, dupOk, convOk, queryOk, signaled_point) ==
  LET early == EarlyOutcome(wt, elapsed)
      chk == check_timeline_point(wt, cs, dupOk, convOk, queryOk, signaled_point)
  IN IF early.res # "go" THEN early
     ELSE [res |-> CASE chk.res = "true" -> "Ok"
                     [] chk.res = "err" -> "ErrQuery"
                     [] OTHER -> "Pending",
           calls |-> early.calls \o chk.calls]

SyncFutureOutcome(sf, elapsed, inner) ==
  IF elapsed > sf.timeout THEN [res |-> "ErrTimeout", calls |-> <<>>]
  ELSE IF sf.timeline_point = 0 THEN [res |-> "Ok", calls |-> <<>>]
  ELSE IF inner.res = "Ok" THEN inner
  ELSE IF inner.res \in Errors
    THEN [res |-> IF sf.timeline_point > 0 THEN "Ok" ELSE inner.res, calls |-> inner.calls]
  ELSE inner

SyncFuturePoll ==
  /\ op = "sync" /\ npolls < MaxPolls
  /\ npolls' = npolls + 1
  /\ pollLate' = (now > w.timeout)
  /\ \E innerElapsed \in 0..1, dupOk, convOk, queryOk \in BOOLEAN :
       LET real_waiter == NewWaiter(BadFd, w.timeline_point, InnerTimeout)
           inner == InnerPoll(real_waiter, innerElapsed, cards, dupOk, convOk, queryOk, kpoint)
           out == SyncFutureOutcome(w, now, inner)
       IN /\ Return(out.res)
          /\ calls' = out.calls
  /\ UNCHANGED <<asyncVars, op, w, now, envVars, efdVars, woken, histVars>>
  /\ UNCHANGED <<failed, fdVars, auxVars>>

\* ------------------------------------------------------ meta.rs, signaler
\* A failed fd-to-handle conversion is ignored and handle 0 is signalled.
SignalerOutcome_signals_anyway(sg, cs, dupOk, convOk, sigOk) ==
  IF ~is_drm_fd(sg.timeline_fd)
    THEN [res |-> "ErrInvalidFd", calls |-> <<"is_drm_fd">>]
  ELSE IF find_drm_device_fd(cs, dupOk) # "Ok"
    THEN [res |-> "ErrFindDevice", calls |-> <<"is_drm_fd", "find_drm_device_fd">>]
  ELSE [res |-> IF fd_to_drm_handle(TRUE, sg.timeline_fd, convOk) # "Ok" THEN "ErrHandle"
                ELSE IF sigOk THEN "Ok" ELSE "ErrSignal",
        calls |-> <<"is_drm_fd", "find_drm_device_fd", "fd_to_drm_handle",
                    "drm_syncobj_timeline_signal">>]

SignalerOutcome(sg, cs, dupOk, convOk, sigOk) ==
  IF ~is_drm_fd(sg.timeline_fd)
    THEN [res |-> "ErrInvalidFd", calls |-> <<"is_drm_fd">>]
  ELSE IF find_drm_device_fd(cs, dupOk) # "Ok"
    THEN [res |-> "ErrFindDevice", calls |-> <<"is_drm_fd", "find_drm_device_fd">>]
  ELSE IF fd_to_drm_handle(TRUE, sg.timeline_fd, convOk) # "Ok"
    THEN [res |-> "ErrHandle",
          calls |-> <<"is_drm_fd", "find_drm_device_fd", "fd_to_drm_handle">>]
  ELSE [res |-> IF sigOk THEN "Ok" ELSE "ErrSignal",
        calls |-> <<"is_drm_fd", "find_drm_device_fd", "fd_to_drm_handle",
                    "drm_syncobj_timeline_signal">>]

\* SyncObjTimelineSignaler::poll; a successful signal ioctl moves the kernel
\* timeline to the signalled point.
SignalerPoll ==
  /\ op = "signal" /\ npolls < MaxPolls
  /\ npolls' = npolls + 1
  /\ \E dupOk, convOk, sigOk \in BOOLEAN :
       LET out == SignalerOutcome(w, cards, dupOk, convOk, sigOk) IN
       /\ Return(out.res)
       /\ calls' = out.calls
       /\ kpoint' = IF out.res = "Ok" THEN Max(kpoint, w.timeline_point) ELSE kpoint
  /\ UNCHANGED <<asyncVars, op, w, cards, now, pollLate, efdVars, woken, histVars>>
  /\ UNCHANGED <<failed, fdVars, auxVars>>

\* ------------------------------------------------------------ environment
Tick ==
  /\ op \in {"wait", "sync"} /\ now < MaxTime
  /\ now' = now + 1
  /\ UNCHANGED <<asyncVars, op, w, envVars, pc, npolls, pollLate, last, calls, efdVars,
                 woken, pendings, histVars>>
  /\ UNCHANGED <<failed, fdVars, auxVars>>

\* The producer's work completes: the timeline advances.
KernelSignal ==
  /\ kpoint < MaxPoint
  /\ kpoint' = kpoint + 1
  /\ UNCHANGED <<asyncVars, op, w, cards, now, pc, npolls, pollLate, last, calls, efdVars,
                 woken, pendings, histVars>>
  /\ UNCHANGED <<failed, fdVars, auxVars>>

\* The kernel writes the eventfd registered for a point the timeline has reached.
KernelNotify ==
  /\ efdRegistered /\ kpoint >= w.timeline_point
  /\ efdCounter' = efdCounter + 1
  /\ efdRegistered' = FALSE
  /\ kWrote' = TRUE
  /\ UNCHANGED <<asyncVars, op, w, envVars, now, pc, npolls, pollLate, last, calls, ready,
                 wakerReg, woken, pendings, maxQuery, lastQuery>>
  /\ UNCHANGED <<failed, fdVars, auxVars>>

\* The I/O driver sees the eventfd readable: readiness is cached, the stored
\* waker is taken and woken.
DriverReady ==
  /\ w.event_fd /\ ~ready /\ efdCounter > 0
  /\ ready' = TRUE
  /\ woken' = (woken \/ wakerReg)
  /\ wakerReg' = FALSE
  /\ UNCHANGED <<asyncVars, op, w, envVars, now, pc, npolls, pollLate, last, calls,
                 efdCounter, efdRegistered, pendings, histVars>>
  /\ UNCHANGED <<failed, fdVars, auxVars>>

\* Readiness reported although the counter is zero (a false positive the
\* AsyncFd contract allows, and the would-block branches of poll handle).
SpuriousReady ==
  /\ w.event_fd /\ ~ready /\ efdCounter = 0
  /\ ready' = TRUE
  /\ woken' = (woken \/ wakerReg)
  /\ wakerReg' = FALSE
  /\ UNCHANGED <<asyncVars, op, w, envVars, now, pc, npolls, pollLate, last, calls,
                 efdCounter, efdRegistered, pendings, histVars>>
  /\ UNCHANGED <<failed, fdVars, auxVars>>

\* ------------------------------------------------------------------ spec
\* Values of the variables a specification does not use.
NoDma == [stage |-> "none"]
NoBuffer == [null |-> TRUE]
NoCall == [fn |-> "none"]
NoTimeline == [refs |-> 0]
NoAcquire == [last |-> "absent"]
NoTimeoutFuture == [last |-> "absent"]
NoTmr == <<>>
NoPool == <<>>
StdFds == {0, 1, 2}      \* stdin, stdout, stderr

InitIdle ==
  /\ now = 0 /\ kpoint = 0 /\ pc = "idle" /\ npolls = 0 /\ pollLate = FALSE
  /\ last = "none" /\ calls = <<>>
  /\ efdCounter = 0 /\ efdRegistered = FALSE /\ ready = FALSE
  /\ wakerReg = FALSE /\ woken = FALSE /\ pendings = 0
  /\ maxQuery = -1 /\ lastQuery = -1 /\ kWrote = FALSE
  /\ failed = {} /\ tmpOpen = 0 /\ efdOpen = 0 /\ efdMade = 0 /\ dropped = FALSE

InitCommon == cards \in CardConfigs /\ InitIdle

InitNoDrm == fdtab = StdFds /\ devs = <<>> /\ closes = <<>>

\* The wrappers of async_v and loop_ that a behaviour does not use.
Unused == <<>>
InitNoWrap ==
  /\ bq = Unused /\ ctx = Unused /\ lk = Unused /\ syn = Unused
  /\ lst = Unused /\ arc = Unused /\ lp = Unused

InitNoAsync ==
  /\ acq = NoAcquire /\ tf = NoTimeoutFuture /\ tmr = NoTmr /\ pool = NoPool
  /\ InitNoWrap

InitAux ==
  /\ dma = NoDma /\ buffer = NoBuffer /\ got = NoCall
  /\ InitNoDrm /\ tl = NoTimeline
  /\ InitNoAsync

\* SyncObjTimelineWaiter::new / with_timeout
InitWait ==
  /\ op = "wait"
  /\ \E fd \in Fds, p \in Points, t \in Timeouts : w = NewWaiter(fd, p, t)

\* SyncFuture::new / with_timeout (the future holds no descriptor)
InitSync ==
  /\ op = "sync"
  /\ \E p \in Points, t \in Timeouts : w = NewWaiter(BadFd, p, t)

\* SyncObjTimelineSignaler::new (the future holds no clock)
InitSignal ==
  /\ op = "signal"
  /\ \E fd \in Fds, p \in Points : w = NewWaiter(fd, p, DefaultTimeout)

Init ==
  /\ InitWait \/ InitSync \/ InitSignal
  /\ InitCommon
  /\ InitAux

Poll == PollBegin(MaxPolls)

Next ==
  \/ Poll
  \/ PollFinish
  \/ SyncFuturePoll
  \/ SignalerPoll
  \/ Tick
  \/ KernelSignal
  \/ KernelNotify
  \/ DriverReady
  \/ SpuriousReady

Spec == Init /\ [][Next]_vars

\* A task that awaits the future: the executor polls it once to start it and
\* then only after a wake, until it resolves.
ScheduledPoll == last \in {"none", "Pending"} /\ (npolls = 0 \/ woken) /\ Poll

NextLive ==
  \/ ScheduledPoll
  \/ PollFinish
  \/ Tick
  \/ KernelSignal
  \/ KernelNotify
  \/ DriverReady
  \/ SpuriousReady

\* The executor polls a woken task and lets a started poll run to its end;
\* the clock runs; the kernel writes an eventfd whose point is reached and
\* the I/O driver reports a readable eventfd.  Nothing obliges the producer
\* to signal the timeline.
InitLive ==
  /\ op = "wait"
  /\ \E fd \in Fds, p \in Points, t \in Timeouts : w = NewWaiter(fd, p, t)
  /\ InitCommon
  /\ InitAux

LiveSpec ==
  /\ InitLive
  /\ [][NextLive]_vars
  /\ WF_vars(ScheduledPoll) /\ WF_vars(PollFinish) /\ WF_vars(Tick)
  /\ WF_vars(KernelNotify) /\ WF_vars(DriverReady)

\* A wake storm: one waiter on a descriptor that passes the probe, a timeline
\* that never reaches the target, and polls without end inside the deadline.
StormPolls == DefaultMaxSuspensions + 1

InitStorm ==
  /\ op = "wait"
  /\ w = NewWaiter(DrmFd, 1, DefaultTimeout)
  /\ InitCommon
  /\ InitAux

\* An awaited future is polled until it resolves, and not after.
StormPoll == last \in {"none", "Pending"} /\ PollBegin(StormPolls)

NextStorm == StormPoll \/ PollFinish

SpecStorm == InitStorm /\ [][NextStorm]_vars

\* --------------------------------------------- the waiter and its descriptors
\* The caller drops the waiter (after its resolution, or to cancel it): the
\* Option<AsyncFd<File>> is dropped with it, which closes the eventfd.  A
\* registration the kernel holds is not touched.
DropWaiter ==
  /\ op = "wait" /\ pc = "idle" /\ ~dropped
  /\ dropped' = TRUE
  /\ efdOpen' = IF w.event_fd THEN efdOpen - 1 ELSE efdOpen
  /\ w' = [w EXCEPT !.event_fd = FALSE]
  /\ ready' = FALSE /\ wakerReg' = FALSE
  /\ UNCHANGED <<asyncVars, op, envVars, now, pc, npolls, pollLate, last, calls, efdCounter,
                 efdRegistered, woken, pendings, histVars, failed, tmpOpen, efdMade,
                 auxVars>>

\* An awaited future is polled until it resolves, and not after.
AwaitedPoll == last \in {"none", "Pending"} /\ Poll

NextFds ==
  \/ AwaitedPoll
  \/ PollFinish
  \/ DropWaiter
  \/ Tick
  \/ KernelSignal
  \/ KernelNotify
  \/ DriverReady
  \/ SpuriousReady

SpecFds == InitLive /\ [][NextFds]_vars

\* ------------------------------------------- drm.rs over a descriptor table
\* The table maps each open descriptor number to what it refers to: kind is
\* DrmFd for a DRM device node, card is the number of the /dev/dri node.
StdEntry == [kind |-> "std", card |-> -1]

\* open(2) and dup(2) return the lowest free number.
LowestFree(tab) ==
  CHOOSE n \in 0..Cardinality(DOMAIN tab) :
    n \notin DOMAIN tab /\ \A m \in 0..(n - 1) : m \in DOMAIN tab

CloseFd(tab, n) == [x \in DOMAIN tab \ {n} |-> tab[x]]

\* is_drm_fd on a descriptor number: the ioctl fails on a closed number.
IsDrmNum(tab, n) == n \in DOMAIN tab /\ is_drm_fd(tab[n].kind)

\* File::open("/dev/dri/card{i}") succeeded on number f.
OpenCard(tab, f, cs, i) ==
  tab @@ (f :> [kind |-> IF cs[i] = "drm" THEN DrmFd ELSE "other", card |-> i])

\* The File of a candidate that does not validate stays open.
RECURSIVE ProbeCards_leaks(_, _, _, _, _)
ProbeCards_leaks(cs, i, tab, dupOk, probed) ==
  IF i >= NumCards
    THEN [res |-> "NotFound", fd |-> NoFd, tab |-> tab, probed |-> probed]
  ELSE IF cs[i] = "absent"
    THEN ProbeCards_leaks(cs, i + 1, tab, dupOk, Append(probed, i))
  ELSE LET f == LowestFree(tab)
           opened == OpenCard(tab, f, cs, i)
       IN IF IsDrmNum(opened, f)
            THEN LET fd_copy == IF dupOk THEN LowestFree(opened) ELSE NoFd
                     duped == IF dupOk THEN opened @@ (fd_copy :> opened[f]) ELSE opened
                 IN [res |-> IF fd_copy >= 0 THEN "Ok" ELSE "DupFailed", fd |-> fd_copy,
                     tab |-> CloseFd(duped, f), probed |-> Append(probed, i)]
            ELSE ProbeCards_leaks(cs, i + 1, opened, dupOk, Append(probed, i))

\* The candidate that validates is remembered and the loop goes on: the
\* last valid candidate wins.
RECURSIVE ProbeCards_last_wins(_, _, _, _, _)
ProbeCards_last_wins(cs, i, tab, dupOk, probed) ==
  IF i >= NumCards
    THEN [res |-> "NotFound", fd |-> NoFd, tab |-> tab, probed |-> probed]
  ELSE IF cs[i] = "absent"
    THEN ProbeCards_last_wins(cs, i + 1, tab, dupOk, Append(probed, i))
  ELSE LET f == LowestFree(tab)
           opened == OpenCard(tab, f, cs, i)
           later == ProbeCards_last_wins(cs, i + 1, tab, dupOk, Append(probed, i))
       IN IF IsDrmNum(opened, f) /\ later.res = "NotFound"
            THEN LET fd_copy == IF dupOk THEN LowestFree(opened) ELSE NoFd
                     duped == IF dupOk THEN opened @@ (fd_copy :> opened[f]) ELSE opened
                 IN [res |-> IF fd_copy >= 0 THEN "Ok" ELSE "DupFailed", fd |-> fd_copy,
                     tab |-> CloseFd(duped, f), probed |-> later.probed]
            ELSE later

\* The loop `for i in 0..16` of find_drm_device_fd from candidate i on: the
\* File is opened on the lowest free number, probed, duplicated when it
\* validates, and closed when it goes out of scope (at the end of the
\* iteration or at the return).  probed lists the candidates tried.
RECURSIVE ProbeCards(_, _, _, _, _)
ProbeCards(cs, i, tab, dupOk, probed) ==
  IF i >= NumCards
    THEN [res |-> "NotFound", fd |-> NoFd, tab |-> tab, probed |-> probed]
  ELSE IF cs[i] = "absent"
    THEN ProbeCards(cs, i + 1, tab, dupOk, Append(probed, i))
  ELSE LET f == LowestFree(tab)
           opened == OpenCard(tab, f, cs, i)
       IN IF IsDrmNum(opened, f)
            THEN LET fd_copy == IF dupOk THEN LowestFree(opened) ELSE NoFd
                     duped == IF dupOk THEN opened @@ (fd_copy :> opened[f]) ELSE opened
                 IN [res |-> IF fd_copy >= 0 THEN "Ok" ELSE "DupFailed", fd |-> fd_copy,
                     tab |-> CloseFd(duped, f), probed |-> Append(probed, i)]
            ELSE ProbeCards(cs, i + 1, CloseFd(opened, f), dupOk, Append(probed, i))

\* ------------------------------------------- buffers and their sync data
NullPtr == 0

DataTypes == {"SyncObj", "DmaBuf", "MemPtr"}

\* Data arrays: the element at position i carries descriptor 9 + i.
DataArrays ==
  UNION {{[i \in 1..n |-> [type |-> t[i], fd |-> 9 + i]] : t \in [1..n -> DataTypes]} :
         n \in 0..MaxDatas}

\* Metadata arrays: a block is tagged sync-timeline or not, and its data
\* pointer is null or points to block i.
MetaArrays ==
  UNION {{[i \in 1..n |-> [type_ |-> k[i][1], data |-> IF k[i][2] THEN i ELSE NullPtr]] :
          k \in [1..n -> {SyncTimelineTag, 1} \X BOOLEAN]} :
         n \in 0..MaxMetas}

\* Data::fd
data_fd(data) ==
  IF data.type \in {"MemFd", "DmaBuf", "SyncObj"}
    THEN IF data.fd >= 0 THEN data.fd ELSE NoFd
    ELSE NoFd

\* Data::sync_obj_fd: the descriptor of a sync-object element.
sync_obj_fd(data) == IF data.type = "SyncObj" THEN data.fd ELSE NoFd

\* The loop of extract_timeline_fds_from_buffer_data over
\* buffer_data.iter().enumerate(), from array index `index` on.
RECURSIVE ExtractLoop(_, _, _, _)
ExtractLoop(buffer_data, index, acquire_fd, release_fd) ==
  IF index >= Len(buffer_data)
    THEN [acquire_fd |-> acquire_fd, release_fd |-> release_fd]
  ELSE LET f == sync_obj_fd(buffer_data[index + 1]) IN
       IF f # NoFd /\ index = 0 THEN ExtractLoop(buffer_data, index + 1, f, release_fd)
       ELSE IF f # NoFd /\ index = 1 THEN ExtractLoop(buffer_data, index + 1, acquire_fd, f)
       ELSE ExtractLoop(buffer_data, index + 1, acquire_fd, release_fd)

extract_timeline_fds_from_buffer_data(buffer_data) ==
  LET r == ExtractLoop(buffer_data, 0, NoFd, NoFd) IN
  IF r.acquire_fd # NoFd /\ r.release_fd # NoFd
    THEN [res |-> "Ok", acquire_fd |-> r.acquire_fd, release_fd |-> r.release_fd]
    ELSE [res |-> "Err", acquire_fd |-> NoFd, release_fd |-> NoFd]

\* Buffer::datas_with_type: the matching elements in array order; <<>> for None.
datas_with_type(b, data_type) ==
  IF b.null THEN <<>>
  ELSE IF Len(b.datas) = 0 \/ b.datas_null THEN <<>>
  ELSE SelectSeq(b.datas, LAMBDA d : d.type = data_type)

\* Buffer::get_sync_fds
get_sync_fds(b) ==
  LET sync_datas == datas_with_type(b, "SyncObj") IN
  IF Len(sync_datas) >= 2 /\ data_fd(sync_datas[1]) # NoFd /\ data_fd(sync_datas[2]) # NoFd
    THEN [res |-> "Some", acquire_fd |-> data_fd(sync_datas[1]), release_fd |-> data_fd(sync_datas[2])]
    ELSE [res |-> "None", acquire_fd |-> NoFd, release_fd |-> NoFd]

\* SyncTimelineRef::from_raw: None for a null pointer, else a view over the block.
from_raw(sync_timeline) ==
  IF sync_timeline # NullPtr THEN [res |-> "Some", block |-> sync_timeline]
  ELSE [res |-> "None", block |-> NullPtr]

\* The first block with the tag is taken, whatever its data pointer.
RECURSIVE MetaSearch_first_tag(_, _)
MetaSearch_first_tag(metas, i) ==
  IF i >= Len(metas) THEN [res |-> "None", block |-> NullPtr]
  ELSE IF metas[i + 1].type_ = SyncTimelineTag THEN from_raw(metas[i + 1].data)
  ELSE MetaSearch_first_tag(metas, i + 1)

\* The loop `for i in 0..spa_buffer.n_metas` of get_sync_timeline_metadata.
RECURSIVE MetaSearch(_, _)
MetaSearch(metas, i) ==
  IF i >= Len(metas) THEN [res |-> "None", block |-> NullPtr]
  ELSE IF metas[i + 1].type_ = SyncTimelineTag /\ metas[i + 1].data # NullPtr
    THEN from_raw(metas[i + 1].data)
  ELSE MetaSearch(metas, i + 1)

\* Buffer::get_sync_timeline_metadata
get_sync_timeline_metadata(b) ==
  IF b.null THEN [res |-> "None", block |-> NullPtr]
  ELSE IF Len(b.metas) = 0 \/ b.metas_null THEN [res |-> "None", block |-> NullPtr]
  ELSE MetaSearch(b.metas, 0)

\* Buffer::datas_mut: the slice a caller hands to the extraction.
datas_mut(b) ==
  IF ~b.null /\ Len(b.datas) > 0 /\ ~b.datas_null THEN b.datas ELSE <<>>

NewBuffer(datas, datas_null, metas, metas_null) ==
  [null |-> FALSE, datas |-> datas, datas_null |-> datas_null,
   metas |-> metas, metas_null |-> metas_null]

ExtractTimelineFds ==
  /\ got' = [fn |-> "extract_timeline_fds_from_buffer_data"]
             @@ extract_timeline_fds_from_buffer_data(datas_mut(buffer))
  /\ UNCHANGED <<asyncVars, op, w, envVars, now, pc, npolls, pollLate, last, calls, efdVars,
                 woken, pendings, histVars, failed, fdVars, dma, buffer, drmVars, tl>>

GetSyncFds ==
  /\ got' = [fn |-> "get_sync_fds"] @@ get_sync_fds(buffer)
  /\ UNCHANGED <<asyncVars, op, w, envVars, now, pc, npolls, pollLate, last, calls, efdVars,
                 woken, pendings, histVars, failed, fdVars, dma, buffer, drmVars, tl>>

GetSyncTimelineMetadata ==
  /\ got' = [fn |-> "get_sync_timeline_metadata"] @@ get_sync_timeline_metadata(buffer)
  /\ UNCHANGED <<asyncVars, op, w, envVars, now, pc, npolls, pollLate, last, calls, efdVars,
                 woken, pendings, histVars, failed, fdVars, dma, buffer, drmVars, tl>>

\* A dequeued buffer: a null spa_buffer, or one with a data array, or one
\* with a metadata array (either array pointer may be null).
InitBuffer ==
  /\ op = "buffer" /\ w = NewWaiter(BadFd, 0, DefaultTimeout)
  /\ \/ buffer = NoBuffer
     \/ \E d \in DataArrays, dn \in BOOLEAN : buffer = NewBuffer(d, dn, <<>>, FALSE)
     \/ \E m \in MetaArrays, mn \in BOOLEAN : buffer = NewBuffer(<<>>, FALSE, m, mn)
  /\ InitCommon
  /\ dma = NoDma /\ got = NoCall /\ InitNoDrm /\ tl = NoTimeline /\ InitNoAsync

NextBuffer == ExtractTimelineFds \/ GetSyncFds \/ GetSyncTimelineMetadata

SpecBuffer == InitBuffer /\ [][NextBuffer]_vars

\* ------------------------------------- meta.rs, SyncTimelineRef::sync_dma_buf
NewSignaler(fd, point) == [timeline_fd |-> fd, timeline_point |-> point]

\* The result of the acquire wait is dropped and the release is signalled.
AfterAcquire_ignores_error(res) == "signal"

\* `acquire_waiter.await?`: an error of the wait leaves the function.
AfterAcquire(res) == IF res = "Ok" THEN "signal" ELSE "return"

\* sync_dma_buf(acquire_timeline_fd, release_timeline_fd) entered: the waiter
\* on the acquire point exists, nothing is signalled yet.
NewDma(release_fd, release_point) ==
  [stage |-> "acquire", release_fd |-> release_fd, release_point |-> release_point,
   acquire |-> "none", sigCalls |-> <<>>, rpoint |-> 0, result |-> "none"]

\* The poll of the acquire waiter inside sync_dma_buf.
DmaPollAcquire == dma.stage = "acquire" /\ last \in {"none", "Pending"} /\ Poll

\* The acquire wait has resolved: `?` returns its error, otherwise the
\* signaler on the release point is built and awaited (it never suspends)
\* and its result is the function's.
DmaResume ==
  /\ dma.stage = "acquire" /\ pc = "idle" /\ last \in Errors \cup {"Ok"}
  /\ IF AfterAcquire(last) = "return"
       THEN dma' = [dma EXCEPT !.stage = "done", !.acquire = last, !.result = last]
       ELSE \E dupOk, convOk, sigOk \in BOOLEAN :
              LET out == SignalerOutcome(NewSignaler(dma.release_fd, dma.release_point),
                                         cards, dupOk, convOk, sigOk)
              IN dma' = [dma EXCEPT !.stage = "done", !.acquire = last,
                                    !.sigCalls = out.calls, !.result = out.res,
                                    !.rpoint = IF out.res = "Ok"
                                                 THEN Max(@, dma.release_point) ELSE @]
  /\ UNCHANGED <<asyncVars, op, w, envVars, now, pc, npolls, pollLate, last, calls, efdVars,
                 woken, pendings, histVars, failed, fdVars, buffer, got, drmVars, tl>>

InitDma ==
  /\ op = "wait"
  /\ \E afd, rfd \in Fds, a, r \in Points :
       /\ w = NewWaiter(afd, a, DefaultTimeout)
       /\ dma = NewDma(rfd, r)
  /\ InitCommon
  /\ buffer = NoBuffer /\ got = NoCall /\ InitNoDrm /\ tl = NoTimeline /\ InitNoAsync

NextDma ==
  \/ DmaPollAcquire
  \/ PollFinish
  \/ DmaResume
  \/ Tick
  \/ KernelSignal
  \/ KernelNotify
  \/ DriverReady
  \/ SpuriousReady

SpecDma == InitDma /\ [][NextDma]_vars

\* Cards 0..MaxCard vary freely; of the others only the last one may exist.
DrmCardConfigs ==
  {[i \in Cards |-> IF i <= MaxCard THEN c[i]
                    ELSE IF i = NumCards - 1 THEN lastc ELSE "absent"] :
     c \in [0..MaxCard -> {"absent", "other", "drm"}], lastc \in {"absent", "drm"}}

\* Objects created so far: the live ones and the ones whose drop closed.
DevsMade == Len(devs) + Len(closes)

\* find_drm_device_fd(): the whole call; on success the duplicate is owned
\* by the DrmDeviceFd it returns.
FindDevice ==
  /\ op = "drm" /\ DevsMade < MaxDevs
  /\ \E dupOk \in BOOLEAN :
       LET r == ProbeCards(cards, 0, fdtab, dupOk, <<>>) IN
       /\ fdtab' = r.tab
       /\ devs' = IF r.res = "Ok" THEN Append(devs, r.fd) ELSE devs
       /\ got' = [fn |-> "find_drm_device_fd", res |-> r.res, fd |-> r.fd,
                  probed |-> r.probed, before |-> fdtab, after |-> r.tab]
  /\ UNCHANGED <<asyncVars, op, w, envVars, now, pc, npolls, pollLate, last, calls, efdVars,
                 woken, pendings, histVars, failed, fdVars, dma, buffer, closes, tl>>

\* DrmDeviceFd::new(fd): a public constructor over any descriptor number,
\* here an open one (as_raw_fd() of a live object included) or -1.
NewDrmDeviceFd ==
  /\ op = "drm" /\ DevsMade < MaxDevs
  /\ \E n \in (DOMAIN fdtab \ StdFds) \cup {NoFd} :
       /\ devs' = Append(devs, n)
       /\ got' = [fn |-> "DrmDeviceFd::new", res |-> "Ok", fd |-> n]
  /\ UNCHANGED <<asyncVars, op, w, envVars, now, pc, npolls, pollLate, last, calls, efdVars,
                 woken, pendings, histVars, failed, fdVars, dma, buffer, fdtab, closes, tl>>

\* Drop for DrmDeviceFd: close(self.fd) when self.fd >= 0.  The log keeps
\* whether the number was an open descriptor when close was called.
DropDrmDeviceFd ==
  /\ op = "drm"
  /\ \E k \in 1..Len(devs) :
       LET n == devs[k] IN
       /\ devs' = SubSeq(devs, 1, k - 1) \o SubSeq(devs, k + 1, Len(devs))
       /\ IF n >= 0
            THEN /\ closes' = Append(closes, [fd |-> n, open |-> n \in DOMAIN fdtab])
                 /\ fdtab' = CloseFd(fdtab, n)
            ELSE UNCHANGED <<closes, fdtab>>
  /\ got' = [fn |-> "drop"]
  /\ UNCHANGED <<asyncVars, op, w, envVars, now, pc, npolls, pollLate, last, calls, efdVars,
                 woken, pendings, histVars, failed, fdVars, dma, buffer, tl>>

InitDrm ==
  /\ op = "drm" /\ w = NewWaiter(BadFd, 0, DefaultTimeout)
  /\ cards \in DrmCardConfigs
  /\ InitIdle
  /\ fdtab \in {[n \in StdFds |-> StdEntry],
                [n \in StdFds \cup {4} |-> IF n = 4 THEN [kind |-> "other", card |-> -1]
                                                   ELSE StdEntry]}
  /\ devs = <<>> /\ closes = <<>>
  /\ dma = NoDma /\ buffer = NoBuffer /\ got = NoCall /\ tl = NoTimeline /\ InitNoAsync

NoHandle == 0     \* handle_args.handle before the kernel writes it
KernelHandles == {7}

\* fd_to_drm_handle(drm_device_fd, syncobj_fd) with the ioctls it issues and
\* the handle it returns; kernel_handle is what the kernel writes into
\* handle_args when the conversion succeeds.
FdToHandleCall(devValid, syncobj_fd, convOk, kernel_handle) ==
  LET r == fd_to_drm_handle(devValid, syncobj_fd, convOk) IN
  [res |-> r,
   handle |-> IF r = "Ok" THEN kernel_handle ELSE NoHandle,
   ioctls |-> IF r = "InvalidInput" THEN <<"DRM_IOCTL_VERSION">>
              ELSE <<"DRM_IOCTL_VERSION", "DRM_IOCTL_SYNCOBJ_FD_TO_HANDLE">>]

FdToHandle ==
  /\ op = "drm"
  /\ \E dev \in (DOMAIN fdtab \ {0, 1}) \cup {NoFd}, sfd \in {BadFd, SyncobjFd},
        convOk \in BOOLEAN, kh \in KernelHandles :
       got' = [fn |-> "fd_to_drm_handle", devValid |-> IsDrmNum(fdtab, dev),
               syncobj_fd |-> sfd, ret0 |-> (convOk /\ sfd # BadFd), kernel_handle |-> kh]
              @@ FdToHandleCall(IsDrmNum(fdtab, dev), sfd, convOk, kh)
  /\ UNCHANGED <<asyncVars, op, w, envVars, now, pc, npolls, pollLate, last, calls, efdVars,
                 woken, pendings, histVars, failed, fdVars, dma, buffer, drmVars, tl>>

NextDrm == FindDevice \/ NewDrmDeviceFd \/ DropDrmDeviceFd \/ FdToHandle

SpecDrm == InitDrm /\ [][NextDrm]_vars

\* --------------------------------------------------- meta.rs, SyncTimelineRef
\* The block behind a SyncTimelineRef; refs is the strong count of the Arc.
\* The arguments end up in each other's field.
SyncTimelineRef_new_swapped(a, r) ==
  [refs |-> 1, flags |-> 0, padding |-> 0, acquire_point |-> r, release_point |-> a]

\* SyncTimelineRef::new(acquire_point, release_point)
SyncTimelineRef_new(a, r) ==
  [refs |-> 1, flags |-> 0, padding |-> 0, acquire_point |-> a, release_point |-> r]

\* Default for SyncTimelineRef
SyncTimelineRef_default ==
  [refs |-> 1, flags |-> 0, padding |-> 0, acquire_point |-> 0, release_point |-> 0]

flags(t) == t.flags
acquire_point(t) == t.acquire_point
release_point(t) == t.release_point

\* set_acquire_point: Arc::get_mut gives access only to a sole owner.
set_acquire_point(t, point) ==
  IF t.refs = 1 THEN [res |-> "Ok", tl |-> [t EXCEPT !.acquire_point = point]]
  ELSE [res |-> "Err", tl |-> t]

\* signal_release writes through release_point_mut, whose expect panics
\* when Arc::get_mut gives no access.
signal_release(t, point) ==
  IF t.refs = 1 THEN [res |-> "Ok", tl |-> [t EXCEPT !.release_point = point]]
  ELSE [res |-> "panic", tl |-> t]

TimelineNew ==
  /\ tl.refs = 0
  /\ \E a, r \in Points :
       /\ tl' = SyncTimelineRef_new(a, r)
       /\ got' = [fn |-> "SyncTimelineRef::new", a |-> a, r |-> r]
  /\ UNCHANGED <<asyncVars, op, w, envVars, now, pc, npolls, pollLate, last, calls, efdVars,
                 woken, pendings, histVars, failed, fdVars, dma, buffer, drmVars>>

TimelineDefault ==
  /\ tl.refs = 0
  /\ tl' = SyncTimelineRef_default
  /\ got' = [fn |-> "SyncTimelineRef::default"]
  /\ UNCHANGED <<asyncVars, op, w, envVars, now, pc, npolls, pollLate, last, calls, efdVars,
                 woken, pendings, histVars, failed, fdVars, dma, buffer, drmVars>>

SetAcquirePoint ==
  /\ tl.refs > 0
  /\ \E point \in Points :
       LET out == set_acquire_point(tl, point) IN
       /\ tl' = out.tl
       /\ got' = [fn |-> "set_acquire_point", res |-> out.res, point |-> point]
  /\ UNCHANGED <<asyncVars, op, w, envVars, now, pc, npolls, pollLate, last, calls, efdVars,
                 woken, pendings, histVars, failed, fdVars, dma, buffer, drmVars>>

SignalRelease ==
  /\ tl.refs > 0
  /\ \E point \in Points :
       LET out == signal_release(tl, point) IN
       /\ tl' = out.tl
       /\ got' = [fn |-> "signal_release", res |-> out.res, point |-> point]
  /\ UNCHANGED <<asyncVars, op, w, envVars, now, pc, npolls, pollLate, last, calls, efdVars,
                 woken, pendings, histVars, failed, fdVars, dma, buffer, drmVars>>

\* Clone for SyncTimelineRef: Arc::clone
TimelineClone ==
  /\ tl.refs > 0 /\ tl.refs < MaxRefs
  /\ tl' = [tl EXCEPT !.refs = @ + 1]
  /\ got' = [fn |-> "clone"]
  /\ UNCHANGED <<asyncVars, op, w, envVars, now, pc, npolls, pollLate, last, calls, efdVars,
                 woken, pendings, histVars, failed, fdVars, dma, buffer, drmVars>>

\* A SyncTimelineRef goes out of scope; the last one frees the block.
TimelineDrop ==
  /\ tl.refs > 0
  /\ tl' = IF tl.refs = 1 THEN NoTimeline ELSE [tl EXCEPT !.refs = @ - 1]
  /\ got' = [fn |-> "drop"]
  /\ UNCHANGED <<asyncVars, op, w, envVars, now, pc, npolls, pollLate, last, calls, efdVars,
                 woken, pendings, histVars, failed, fdVars, dma, buffer, drmVars>>

InitTimeline ==
  /\ op = "timeline" /\ w = NewWaiter(BadFd, 0, DefaultTimeout)
  /\ InitCommon
  /\ InitAux

NextTimeline ==
  \/ TimelineNew
  \/ TimelineDefault
  \/ SetAcquirePoint
  \/ SignalRelease
  \/ TimelineClone
  \/ TimelineDrop

SpecTimeline == InitTimeline /\ [][NextTimeline]_vars

\* ------------------------------ async_v/buffer.rs, TimelineAcquireFuture
\* Everything of the other areas that the async_v wrappers leave alone.
coreVars == <<op, w, envVars, now, pc, npolls, pollLate, last, calls, efdVars,
              woken, pendings, histVars, failed, fdVars, dma, buffer, got, drmVars,
              wrapVars>>

\* The same without got.
restVars == <<op, w, envVars, now, pc, npolls, pollLate, last, calls, efdVars,
              woken, pendings, histVars, failed, fdVars, dma, buffer, drmVars,
              wrapVars>>

\* The metadata block a raw *mut spa_meta_sync_timeline points at.
MetaBlock(a, r) ==
  [refs |-> 1, flags |-> 0, padding |-> 0, acquire_point |-> a, release_point |-> r]

\* TimelineAcquireFuture::new(timeline, acquire_point); threads counts the
\* std::thread::spawn calls of the future, sleeping those of them that have
\* not called wake yet, polls the calls of poll.
NewAcquire(point) ==
  [acquire_point |-> point, poll_count |-> 0, max_polls |-> DefaultMaxSuspensions,
   last |-> "none", polls |-> 0, threads |-> 0, sleeping |-> 0, woken |-> FALSE]

\* The point is compared before the poll count.
AcquireOutcome_point_first(f, current_point) ==
  IF current_point >= f.acquire_point
    THEN [res |-> "Ok", poll_count |-> f.poll_count + 1, spawn |-> 0]
  ELSE IF f.poll_count >= f.max_polls
    THEN [res |-> "ErrMaxPolls", poll_count |-> f.poll_count, spawn |-> 0]
  ELSE [res |-> "Pending", poll_count |-> f.poll_count + 1, spawn |-> 1]

\* No thread is spawned on the pending path.
AcquireOutcome_no_thread(f, current_point) ==
  IF f.poll_count >= f.max_polls
    THEN [res |-> "ErrMaxPolls", poll_count |-> f.poll_count, spawn |-> 0]
  ELSE IF current_point >= f.acquire_point
    THEN [res |-> "Ok", poll_count |-> f.poll_count + 1, spawn |-> 0]
  ELSE [res |-> "Pending", poll_count |-> f.poll_count + 1, spawn |-> 0]

\* TimelineAcquireFuture::poll: the bound on poll_count, the increment, the
\* read of the block's acquire_point, and on the pending path one spawned thread.
AcquireOutcome(f, current_point) ==
  IF f.poll_count >= f.max_polls
    THEN [res |-> "ErrMaxPolls", poll_count |-> f.poll_count, spawn |-> 0]
  ELSE IF current_point >= f.acquire_point
    THEN [res |-> "Ok", poll_count |-> f.poll_count + 1, spawn |-> 0]
  ELSE [res |-> "Pending", poll_count |-> f.poll_count + 1, spawn |-> 1]

\* The executor polls the future: for the first time, or after a wake-up.
AcquirePoll ==
  /\ op = "acquire"
  /\ acq.last = "none" \/ (acq.last = "Pending" /\ acq.woken)
  /\ LET out == AcquireOutcome(acq, tl.acquire_point) IN
     acq' = [acq EXCEPT !.last = out.res, !.poll_count = out.poll_count,
                        !.polls = @ + 1, !.threads = @ + out.spawn,
                        !.sleeping = @ + out.spawn, !.woken = FALSE]
  /\ UNCHANGED <<coreVars, tl, tf, tmr, pool>>

\* A spawned thread ends its 100 microsecond sleep and calls waker_clone.wake().
ThreadWake ==
  /\ op = "acquire" /\ acq.sleeping > 0
  /\ acq' = [acq EXCEPT !.sleeping = @ - 1, !.woken = (acq.last = "Pending")]
  /\ UNCHANGED <<coreVars, tl, tf, tmr, pool>>

\* The producer raises the acquire_point stored in the block.
ProducerAdvance ==
  /\ op = "acquire" /\ tl.acquire_point < MaxPoint
  /\ tl' = [tl EXCEPT !.acquire_point = @ + 1]
  /\ UNCHANGED <<coreVars, acq, tf, tmr, pool>>

InitAcquire ==
  /\ op = "acquire" /\ w = NewWaiter(BadFd, 0, DefaultTimeout)
  /\ cards = NoCard /\ InitIdle
  /\ dma = NoDma /\ buffer = NoBuffer /\ got = NoCall /\ InitNoDrm
  /\ tf = NoTimeoutFuture /\ tmr = NoTmr /\ pool = NoPool /\ InitNoWrap
  /\ \E a, point \in Points : tl = MetaBlock(a, 0) /\ acq = NewAcquire(point)

NextAcquire == AcquirePoll \/ ThreadWake \/ ProducerAdvance

\* Every wake-up leads to a poll, and every spawned thread ends its sleep.
SpecAcquire ==
  InitAcquire /\ [][NextAcquire]_vars /\ WF_vars(AcquirePoll) /\ WF_vars(ThreadWake)

\* ------------------------------------------------- async_v/utils.rs, TMR
\* A copy is None or Some(v), v in TmrValues.
None == -1
TmrValues == 0..MaxVal
Copies == TmrValues \cup {None}

\* TMR::new
TMR_new == <<None, None, None>>

\* TMR::set
TMR_set(value) == <<value, value, value>>

\* TMR::get: the two match arms with all three copies Some, else None.
TMR_get(values) ==
  IF /\ values[1] # None /\ values[2] # None /\ values[3] # None
     /\ (values[1] = values[2] \/ values[1] = values[3])
    THEN values[1]
  ELSE IF /\ values[1] # None /\ values[2] # None /\ values[3] # None
          /\ values[2] = values[3]
    THEN values[2]
  ELSE None

TmrSet ==
  /\ op = "tmr"
  /\ \E value \in TmrValues :
       /\ tmr' = TMR_set(value)
       /\ got' = [fn |-> "TMR::set", value |-> value]
  /\ UNCHANGED <<restVars, tl, acq, tf, pool>>

TmrGet ==
  /\ op = "tmr"
  /\ got' = [fn |-> "TMR::get", ret |-> TMR_get(tmr)]
  /\ UNCHANGED <<restVars, tl, acq, tf, pool, tmr>>

\* A single-event upset rewrites one stored copy: its tag, its payload or both.
SingleEventUpset ==
  /\ op = "tmr"
  /\ \E i \in 1..3, x \in Copies :
       /\ x # tmr[i]
       /\ tmr' = [tmr EXCEPT ![i] = x]
       /\ got' = [fn |-> "upset", slot |-> i]
  /\ UNCHANGED <<restVars, tl, acq, tf, pool>>

InitTmr ==
  /\ op = "tmr" /\ w = NewWaiter(BadFd, 0, DefaultTimeout)
  /\ cards = NoCard /\ InitIdle
  /\ dma = NoDma /\ buffer = NoBuffer /\ got = NoCall /\ InitNoDrm /\ tl = NoTimeline
  /\ acq = NoAcquire /\ tf = NoTimeoutFuture /\ pool = NoPool /\ InitNoWrap
  /\ tmr = TMR_new

NextTmr == TmrSet \/ TmrGet \/ SingleEventUpset

SpecTmr == InitTmr /\ [][NextTmr]_vars

\* ------------------------------------- buffer.rs / stream.rs, Buffer hand-over
\* The pw_buffers of one stream are numbered 1..MaxBufs; NullPtr is the NULL
\* that pw_stream_dequeue_buffer returns when it has none to give.  Per
\* buffer: where it is ("stream", "held" by a Buffer, or "raw": a pointer
\* handed over by into_raw), and the queue_raw_buffer calls made for it
\* since it was last dequeued, in all and by Drop.
BufPtrs == 1..MaxBufs
InStream == [where |-> "stream", queues |-> 0, byDrop |-> 0]

\* Buffer::from_raw (NonNull::new): a Buffer for every pointer but NULL.
Buffer_from_raw(buf) == IF buf = NullPtr THEN "None" ELSE "Some"

\* into_raw without mem::forget: Drop runs when self goes out of scope.
into_raw_without_forget(p, b) ==
  [p EXCEPT ![b] = [where |-> "raw", queues |-> @.queues + 1, byDrop |-> @.byDrop + 1]]

\* Buffer::into_raw: the pointer is returned and the Buffer forgotten, so
\* Drop does not run.
into_raw(p, b) == [p EXCEPT ![b].where = "raw"]

\* Drop for Buffer: stream.queue_raw_buffer(buf).
Buffer_drop(p, b) ==
  [p EXCEPT ![b] = [where |-> "stream", queues |-> @.queues + 1, byDrop |-> @.byDrop + 1]]

\* StreamRef::dequeue_buffer: the stream hands out one of the buffers it
\* holds, or NULL.
DequeueBuffer ==
  /\ op = "stream"
  /\ \E buf \in {b \in BufPtrs : pool[b].where = "stream"} \cup {NullPtr} :
       /\ got' = [fn |-> "dequeue_buffer", buf |-> buf, ret |-> Buffer_from_raw(buf)]
       /\ pool' = IF Buffer_from_raw(buf) = "Some"
                    THEN [pool EXCEPT ![buf] = [where |-> "held", queues |-> 0, byDrop |-> 0]]
                    ELSE pool
  /\ UNCHANGED <<restVars, tl, acq, tf, tmr>>

\* A Buffer goes out of scope.
DropBuffer ==
  /\ op = "stream"
  /\ \E b \in BufPtrs :
       /\ pool[b].where = "held"
       /\ pool' = Buffer_drop(pool, b)
       /\ got' = [fn |-> "drop", buf |-> b]
  /\ UNCHANGED <<restVars, tl, acq, tf, tmr>>

IntoRaw ==
  /\ op = "stream"
  /\ \E b \in BufPtrs :
       /\ pool[b].where = "held"
       /\ pool' = into_raw(pool, b)
       /\ got' = [fn |-> "into_raw", buf |-> b]
  /\ UNCHANGED <<restVars, tl, acq, tf, tmr>>

\* The holder of a pointer obtained from into_raw gives it back with
\* StreamRef::queue_raw_buffer.
QueueRawBuffer ==
  /\ op = "stream"
  /\ \E b \in BufPtrs :
       /\ pool[b].where = "raw" /\ pool[b].queues = 0
       /\ pool' = [pool EXCEPT ![b].where = "stream", ![b].queues = @ + 1]
       /\ got' = [fn |-> "queue_raw_buffer", buf |-> b]
  /\ UNCHANGED <<restVars, tl, acq, tf, tmr>>

InitStream ==
  /\ op = "stream" /\ w = NewWaiter(BadFd, 0, DefaultTimeout)
  /\ cards = NoCard /\ InitIdle
  /\ dma = NoDma /\ buffer = NoBuffer /\ got = NoCall /\ InitNoDrm /\ tl = NoTimeline
  /\ acq = NoAcquire /\ tf = NoTimeoutFuture /\ tmr = NoTmr /\ InitNoWrap
  /\ pool = [b \in BufPtrs |-> InStream]

NextStream == DequeueBuffer \/ DropBuffer \/ IntoRaw \/ QueueRawBuffer

SpecStream == InitStream /\ [][NextStream]_vars

\* ----------------------------------------- async_v/utils.rs, TimeoutFuture
\* The wrapped future is a oneshot receiver: Pending until the loop thread
\* has sent a value, then Ready(value).  answer is the value sent ("none"
\* before), innerWaker whether the receiver holds the task's waker.
InnerValues == {"sent_ok", "sent_err"}
PollBounds == {ShortMaxPolls, DefaultMaxSuspensions}

\* TimeoutFuture::new(future, timeout, max_polls) at time start; polls
\* counts the calls of poll, innerPolls those of inner.poll.
NewTimeoutFuture(start, timeout, max_polls) ==
  [deadline |-> start + timeout, poll_count |-> 0, max_polls |-> max_polls,
   last |-> "none", value |-> "none", polls |-> 0, innerPolls |-> 0,
   answer |-> "none", innerWaker |-> FALSE, woken |-> FALSE]

\* The inner future is polled before the two bounds are checked.
TimeoutOutcome_inner_first(f, time) ==
  IF f.answer # "none"
    THEN [res |-> "Ok", value |-> f.answer, poll_count |-> f.poll_count + 1, inner |-> 1]
  ELSE IF f.poll_count >= f.max_polls
    THEN [res |-> "MaxPollsExceeded", value |-> "none", poll_count |-> f.poll_count, inner |-> 1]
  ELSE IF time > f.deadline
    THEN [res |-> "DeadlineExceeded", value |-> "none", poll_count |-> f.poll_count, inner |-> 1]
  ELSE [res |-> "Pending", value |-> "none", poll_count |-> f.poll_count + 1, inner |-> 1]

\* TimeoutFuture::poll: the poll-count bound, the deadline, the increment,
\* then inner.poll, whose Ready(value) becomes Ready(Ok(value)).
TimeoutOutcome(f, time) ==
  IF f.poll_count >= f.max_polls
    THEN [res |-> "MaxPollsExceeded", value |-> "none", poll_count |-> f.poll_count, inner |-> 0]
  ELSE IF time > f.deadline
    THEN [res |-> "DeadlineExceeded", value |-> "none", poll_count |-> f.poll_count, inner |-> 0]
  ELSE IF f.answer # "none"
    THEN [res |-> "Ok", value |-> f.answer, poll_count |-> f.poll_count + 1, inner |-> 1]
  ELSE [res |-> "Pending", value |-> "none", poll_count |-> f.poll_count + 1, inner |-> 1]

\* One call of TimeoutFuture::poll; a pending inner poll stores the waker.
TimeoutPollStep ==
  LET out == TimeoutOutcome(tf, now) IN
  tf' = [tf EXCEPT !.last = out.res, !.value = out.value,
                   !.poll_count = out.poll_count, !.polls = @ + 1,
                   !.innerPolls = @ + out.inner,
                   !.innerWaker = IF out.inner = 1 THEN (out.res = "Pending") ELSE @,
                   !.woken = FALSE]

tfFrame == <<op, w, envVars, pc, npolls, pollLate, last, calls, efdVars, woken,
             pendings, histVars, failed, fdVars, auxVars, acq, tmr, pool, wrapVars>>

\* The executor polls the unresolved future, woken or not.
TimeoutPoll ==
  /\ op = "timeout" /\ tf.last \in {"none", "Pending"}
  /\ TimeoutPollStep
  /\ UNCHANGED <<tfFrame, now>>

\* The executor polls the future for the first time, or after a wake-up.
ScheduledTimeoutPoll ==
  /\ op = "timeout"
  /\ tf.last = "none" \/ (tf.last = "Pending" /\ tf.woken)
  /\ TimeoutPollStep
  /\ UNCHANGED <<tfFrame, now>>

\* The loop thread's callback sends a value on the channel: the receiver
\* becomes ready and wakes the task whose waker it holds.
ServerAnswer ==
  /\ op = "timeout" /\ tf.answer = "none"
  /\ \E v \in InnerValues :
       tf' = [tf EXCEPT !.answer = v, !.innerWaker = FALSE,
                        !.woken = (@ \/ tf.innerWaker)]
  /\ UNCHANGED <<tfFrame, now>>

ClockTick ==
  /\ op = "timeout" /\ now < MaxTime
  /\ now' = now + 1
  /\ UNCHANGED <<tfFrame, tf>>

InitTimeout ==
  /\ op = "timeout" /\ w = NewWaiter(BadFd, 0, DefaultTimeout)
  /\ cards = NoCard /\ InitIdle 
  /\ dma = NoDma /\ buffer = NoBuffer /\ got = NoCall /\ InitNoDrm /\ tl = NoTimeline
  /\ acq = NoAcquire /\ tmr = NoTmr /\ pool = NoPool /\ InitNoWrap
  /\ \E t \in Timeouts, m \in PollBounds : tf = NewTimeoutFuture(0, t, m)

NextTimeout == TimeoutPoll \/ ServerAnswer \/ ClockTick

SpecTimeout == InitTimeout /\ [][NextTimeout]_vars

NextTimeoutLive == ScheduledTimeoutPoll \/ ServerAnswer \/ ClockTick

\* The executor polls a woken task and the clock advances; nothing obliges
\* the server to answer.
SpecTimeoutLive ==
  InitTimeout /\ [][NextTimeoutLive]_vars
  /\ WF_vars(ScheduledTimeoutPoll) /\ WF_vars(ClockTick)

\* ----------------------------------------- async_v/utils.rs, BoundedQueue
\* items[i + 1] is the slot the code calls items[i]; a slot is None or
\* Some(item).  Items are numbered by the push that offers them.

\* BoundedQueue::new
BoundedQueue_new(n) ==
  [n |-> n, items |-> [i \in 1..n |-> None], head |-> 0, tail |-> 0, len |-> 0]

\* BoundedQueue::push: Err(item) when len == N
BoundedQueue_push_unchecked(q, item) ==
  [q |-> [q EXCEPT !.items[q.tail + 1] = item,
                   !.tail = (q.tail + 1) % q.n,
                   !.len = q.len + 1],
   ret |-> "Ok", item |-> None]

BoundedQueue_push(q, item) ==
  IF q.len = q.n
    THEN [q |-> q, ret |-> "Err", item |-> item]
    ELSE [q |-> [q EXCEPT !.items[q.tail + 1] = item,
                          !.tail = (q.tail + 1) % q.n,
                          !.len = q.len + 1],
          ret |-> "Ok", item |-> None]

\* BoundedQueue::pop: None when len == 0, else the slot at head is taken
BoundedQueue_pop_without_take(q) ==
  IF q.len = 0
    THEN [q |-> q, ret |-> None]
    ELSE [q |-> [q EXCEPT !.head = (q.head + 1) % q.n, !.len = q.len - 1],
          ret |-> q.items[q.head + 1]]

BoundedQueue_pop(q) ==
  IF q.len = 0
    THEN [q |-> q, ret |-> None]
    ELSE [q |-> [q EXCEPT !.items[q.head + 1] = None,
                          !.head = (q.head + 1) % q.n,
                          !.len = q.len - 1],
          ret |-> q.items[q.head + 1]]

\* Everything outside the wrappers of this section and the next ones.
baseVars == <<op, w, envVars, now, pc, npolls, pollLate, last, calls, efdVars,
              woken, pendings, histVars, failed, fdVars, auxVars,
              acq, tf, tmr, pool>>

\* bq.q is the queue; offered counts the pushes made, accepted lists the items
\* whose push returned Ok, popped the items pop returned, call and ret
\* describe the last call.
QueuePush ==
  /\ op = "queue" /\ bq.offered < MaxPushes
  /\ LET item == bq.offered + 1
         out == BoundedQueue_push(bq.q, item)
     IN bq' = [q |-> out.q, offered |-> item,
               accepted |-> IF out.ret = "Ok" THEN Append(bq.accepted, item)
                            ELSE bq.accepted,
               popped |-> bq.popped,
               call |-> "push", ret |-> out.ret, item |-> out.item]
  /\ UNCHANGED <<baseVars, ctx, lk, syn, lst, arc, lp>>

QueuePop ==
  /\ op = "queue"
  /\ LET out == BoundedQueue_pop(bq.q)
     IN bq' = [q |-> out.q, offered |-> bq.offered,
               accepted |-> bq.accepted,
               popped |-> IF out.ret # None THEN Append(bq.popped, out.ret)
                          ELSE bq.popped,
               call |-> IF out.ret = None THEN "pop_none" ELSE "pop",
               ret |-> "Ok", item |-> out.ret]
  /\ UNCHANGED <<baseVars, ctx, lk, syn, lst, arc, lp>>

InitQueue ==
  /\ op = "queue" /\ w = NewWaiter(BadFd, 0, DefaultTimeout)
  /\ cards = NoCard /\ InitIdle
  /\ dma = NoDma /\ buffer = NoBuffer /\ got = NoCall /\ InitNoDrm /\ tl = NoTimeline
  /\ acq = NoAcquire /\ tf = NoTimeoutFuture /\ tmr = NoTmr /\ pool = NoPool
  /\ ctx = Unused /\ lk = Unused /\ syn = Unused /\ lst = Unused
  /\ arc = Unused /\ lp = Unused
  /\ \E n \in 1..MaxCap :
       bq = [q |-> BoundedQueue_new(n), offered |-> 0, accepted |-> <<>>,
             popped |-> <<>>, call |-> "new", ret |-> "Ok", item |-> None]

NextQueue == QueuePush \/ QueuePop

SpecQueue == InitQueue /\ [][NextQueue]_vars

\* ------------------------------------ async_v/context.rs, start and stop
\* ctx.running is AsyncContextInner::running, ctx.started whether the thread
\* loop runs.  A call by thread t is two steps, the swap of the flag and the
\* call of the thread loop; at[t] is where t stands between them.  Whether
\* ThreadLoop::start or ThreadLoop::stop succeeds is the environment's
\* choice.  loopCalls lists the calls the thread loop received.
Threads == 1..MaxThreads

\* AsyncContext::new
AsyncContext_new ==
  [running |-> FALSE, started |-> FALSE, at |-> [t \in Threads |-> "idle"],
   loopCalls |-> <<>>, ret |-> "none", dropped |-> FALSE]

\* running.swap(true): return Ok when it was set, else go on to the loop
StartSwap(c, t) ==
  IF c.running
    THEN [c EXCEPT !.ret = "Ok"]
    ELSE [c EXCEPT !.running = TRUE, !.at[t] = "start_loop"]

\* thread_loop.start()?; Ok(())
StartLoop(c, t, ok) ==
  [c EXCEPT !.started = IF ok THEN TRUE ELSE @,
            !.loopCalls = Append(@, "start"),
            !.ret = IF ok THEN "Ok" ELSE "Err",
            !.at[t] = "idle"]

\* running.swap(false): return Ok when it was clear, else go on to the loop
StopSwap(c, t) ==
  IF ~c.running
    THEN [c EXCEPT !.ret = "Ok"]
    ELSE [c EXCEPT !.running = FALSE, !.at[t] = "stop_loop"]

\* thread_loop.stop()?; Ok(())
StopLoop(c, t, ok) ==
  [c EXCEPT !.started = IF ok THEN FALSE ELSE @,
            !.loopCalls = Append(@, "stop"),
            !.ret = IF ok THEN "Ok" ELSE "Err",
            !.at[t] = "idle"]

\* Drop for AsyncContext: stop the loop when running is set, result ignored
AsyncContext_drop(c, ok) ==
  IF c.running
    THEN [c EXCEPT !.started = IF ok THEN FALSE ELSE @,
                   !.loopCalls = Append(@, "stop"),
                   !.dropped = TRUE]
    ELSE [c EXCEPT !.dropped = TRUE]

CtxLive == op = "ctx" /\ ~ctx.dropped /\ Len(ctx.loopCalls) < MaxLoopCalls

ContextStart ==
  /\ CtxLive
  /\ \E t \in Threads :
       /\ ctx.at[t] = "idle"
       /\ ctx' = StartSwap(ctx, t)
  /\ UNCHANGED <<baseVars, bq, lk, syn, lst, arc, lp>>

ContextStartLoop ==
  /\ CtxLive
  /\ \E t \in Threads, ok \in BOOLEAN :
       /\ ctx.at[t] = "start_loop"
       /\ ctx' = StartLoop(ctx, t, ok)
  /\ UNCHANGED <<baseVars, bq, lk, syn, lst, arc, lp>>

ContextStop ==
  /\ CtxLive
  /\ \E t \in Threads :
       /\ ctx.at[t] = "idle"
       /\ ctx' = StopSwap(ctx, t)
  /\ UNCHANGED <<baseVars, bq, lk, syn, lst, arc, lp>>

ContextStopLoop ==
  /\ CtxLive
  /\ \E t \in Threads, ok \in BOOLEAN :
       /\ ctx.at[t] = "stop_loop"
       /\ ctx' = StopLoop(ctx, t, ok)
  /\ UNCHANGED <<baseVars, bq, lk, syn, lst, arc, lp>>

\* The context is dropped when no call borrows it.
ContextDrop ==
  /\ CtxLive
  /\ \A t \in Threads : ctx.at[t] = "idle"
  /\ \E ok \in BOOLEAN : ctx' = AsyncContext_drop(ctx, ok)
  /\ UNCHANGED <<baseVars, bq, lk, syn, lst, arc, lp>>

InitContext ==
  /\ op = "ctx" /\ w = NewWaiter(BadFd, 0, DefaultTimeout)
  /\ cards = NoCard /\ InitIdle
  /\ dma = NoDma /\ buffer = NoBuffer /\ got = NoCall /\ InitNoDrm /\ tl = NoTimeline
  /\ acq = NoAcquire /\ tf = NoTimeoutFuture /\ tmr = NoTmr /\ pool = NoPool
  /\ bq = Unused /\ lk = Unused /\ syn = Unused /\ lst = Unused
  /\ arc = Unused /\ lp = Unused
  /\ ctx = AsyncContext_new

NextContext ==
  ContextStart \/ ContextStartLoop \/ ContextStop \/ ContextStopLoop \/ ContextDrop

SpecContext == InitContext /\ [][NextContext]_vars

\* --------------------------- async_v: operations under the thread-loop lock
\* AsyncContext::connect, AsyncCore::sync, AsyncStream::new and connect,
\* AsyncNode::get_info and set_async, AsyncRegistry::list_objects: each takes
\* the thread-loop lock, makes one fallible call on the wrapped object and
\* releases the lock.  lk.depth is the number of times the calling thread
\* holds the (recursive) lock; whether the wrapped call succeeds is the
\* environment's choice.
LockedOps == {"connect", "sync", "stream_new", "stream_connect", "get_info",
              "set_async", "list_objects"}

\* What follows the wrapped call, from its result to the return or to the
\* first await: does the operation unlock, and what does the caller get.
\* All but set_async apply ? to the call's result before the unlock;
\* set_async keeps the result, unlocks and returns it.
AfterCall(o, ok) ==
  CASE o = "set_async" ->
         [unlock |-> TRUE, ret |-> IF ok THEN "Ok" ELSE "Err"]
    [] o = "stream_new" ->
         IF ok THEN [unlock |-> TRUE, ret |-> "Ok"]
         ELSE [unlock |-> FALSE, ret |-> "Err"]
    [] OTHER ->
         IF ok THEN [unlock |-> TRUE, ret |-> "awaiting"]
         ELSE [unlock |-> FALSE, ret |-> "Err"]

NewLock == [depth |-> 0, opn |-> "none", at |-> "idle", ret |-> "none", ncalls |-> 0]

\* The operation starts: get_info returns the stored info without locking
\* when it has one, every other path locks the thread loop.
LockedBegin ==
  /\ op = "lock" /\ lk.at = "idle" /\ lk.ncalls < MaxOps
  /\ \E o \in LockedOps, cached \in BOOLEAN :
       lk' = IF o = "get_info" /\ cached
               THEN [lk EXCEPT !.opn = o, !.ret = "Ok", !.ncalls = @ + 1]
               ELSE [lk EXCEPT !.opn = o, !.at = "locked", !.ret = "none",
                               !.depth = @ + 1, !.ncalls = @ + 1]
  /\ UNCHANGED <<baseVars, bq, ctx, syn, lst, arc, lp>>

\* The wrapped call returns and the operation runs on to its return or to
\* its first await.
LockedFinish ==
  /\ op = "lock" /\ lk.at = "locked"
  /\ \E ok \in BOOLEAN :
       LET out == AfterCall(lk.opn, ok)
       IN lk' = [lk EXCEPT !.at = "idle", !.ret = out.ret,
                           !.depth = IF out.unlock THEN @ - 1 ELSE @]
  /\ UNCHANGED <<baseVars, bq, ctx, syn, lst, arc, lp>>

InitLock ==
  /\ op = "lock" /\ w = NewWaiter(BadFd, 0, DefaultTimeout)
  /\ cards = NoCard /\ InitIdle
  /\ dma = NoDma /\ buffer = NoBuffer /\ got = NoCall /\ InitNoDrm /\ tl = NoTimeline
  /\ acq = NoAcquire /\ tf = NoTimeoutFuture /\ tmr = NoTmr /\ pool = NoPool
  /\ bq = Unused /\ ctx = Unused /\ syn = Unused /\ lst = Unused
  /\ arc = Unused /\ lp = Unused
  /\ lk = NewLock

NextLock == LockedBegin \/ LockedFinish

SpecLock == InitLock /\ [][NextLock]_vars

\* ------------------------------------------ async_v/core.rs, AsyncCore::sync
\* syn.seq[h] is the seq counter of the h-th AsyncCore value of one core
\* connection (the first from AsyncCore::new, the others cloned), syn.flights
\* the sync calls made, in order: the handle, the sequence number taken and
\* "waiting", "ok" (its done closure sent Ok) or "err" (core.sync failed).
\* syn.reqs lists the sequence numbers the server received and syn.done how
\* many of them it has answered; it answers them in order.

\* AsyncCore::new: seq starts at 1
AsyncCore_new == [seq |-> <<1>>, flights |-> <<>>, reqs |-> <<>>, done |-> 0]

\* Clone for AsyncCore: a new counter holding the current value
AsyncCore_clone(s, h) == [s EXCEPT !.seq = Append(@, s.seq[h])]

\* AsyncCore::sync up to its await: fetch_add on the handle's counter, the
\* done listener, the request
AsyncCore_sync(s, h, ok) ==
  [s EXCEPT !.seq[h] = @ + 1,
            !.flights = Append(@, [h |-> h, seq |-> s.seq[h],
                                   st |-> IF ok THEN "waiting" ELSE "err"]),
            !.reqs = IF ok THEN Append(@, s.seq[h]) ELSE @]

\* The done closure of a call: Ok is sent when seq_id equals the call's seq
DoneClosure(f, seq_id) ==
  IF f.st = "waiting" /\ seq_id = f.seq THEN [f EXCEPT !.st = "ok"] ELSE f

CoreClone ==
  /\ op = "coresync" /\ Len(syn.seq) < MaxHandles
  /\ \E h \in 1..Len(syn.seq) : syn' = AsyncCore_clone(syn, h)
  /\ UNCHANGED <<baseVars, bq, ctx, lk, lst, arc, lp>>

CoreSync ==
  /\ op = "coresync" /\ Len(syn.flights) < MaxSyncs
  /\ \E h \in 1..Len(syn.seq), ok \in BOOLEAN : syn' = AsyncCore_sync(syn, h, ok)
  /\ UNCHANGED <<baseVars, bq, ctx, lk, lst, arc, lp>>

\* The server answers its oldest open request; every registered done
\* listener of the connection sees the event.
ServerDone ==
  /\ op = "coresync" /\ syn.done < Len(syn.reqs)
  /\ LET seq_id == syn.reqs[syn.done + 1]
     IN syn' = [syn EXCEPT !.done = @ + 1,
                           !.flights = [i \in 1..Len(syn.flights) |->
                                          DoneClosure(syn.flights[i], seq_id)]]
  /\ UNCHANGED <<baseVars, bq, ctx, lk, lst, arc, lp>>

InitCoreSync ==
  /\ op = "coresync" /\ w = NewWaiter(BadFd, 0, DefaultTimeout)
  /\ cards = NoCard /\ InitIdle
  /\ dma = NoDma /\ buffer = NoBuffer /\ got = NoCall /\ InitNoDrm /\ tl = NoTimeline
  /\ acq = NoAcquire /\ tf = NoTimeoutFuture /\ tmr = NoTmr /\ pool = NoPool
  /\ bq = Unused /\ ctx = Unused /\ lk = Unused /\ lst = Unused
  /\ arc = Unused /\ lp = Unused
  /\ syn = AsyncCore_new

NextCoreSync == CoreClone \/ CoreSync \/ ServerDone

SpecCoreSync == InitCoreSync /\ [][NextCoreSync]_vars

\* -------------------------------- async_v/registry.rs, list_objects
\* The state of one list_objects call from its unlock on.  The loop thread
\* runs the global and done callbacks; the calling task runs the collecting
\* loop.  Globals are numbered in the order the registry announces them.
\* lst.announced lists the globals of the requested type whose callback ran
\* before the done event, lst.chan the channel's content, lst.objects the
\* vector being collected.
MaxObjects == 1024     \* objects.len() < 1024

NewListing ==
  [n |-> 0, announced |-> <<>>, chan |-> <<>>, objects |-> <<>>,
   done |-> FALSE, ret |-> "none"]

\* The global closure: an object of the requested type is sent through a
\* fresh clone of the sender.  A fresh clone is not parked, so try_send
\* queues the message whatever the channel already holds.
GlobalClosure(l, matches) ==
  IF matches
    THEN [l EXCEPT !.n = @ + 1, !.chan = Append(@, l.n + 1),
                   !.announced = Append(@, l.n + 1)]
    ELSE [l EXCEPT !.n = @ + 1]

\* The rx.next() arm of the select and the loop body
ReceiveArm(l) ==
  IF Len(l.objects) < MaxObjects
    THEN [l EXCEPT !.chan = Tail(@), !.objects = Append(@, Head(l.chan))]
    ELSE [l EXCEPT !.chan = Tail(@), !.ret = "ErrTooMany"]

\* The ready(()) arm: the loop ends when done is set, fails when the five
\* seconds have passed, and goes round again otherwise
ReadyArm(l, late) ==
  IF l.done THEN [l EXCEPT !.ret = "Ok"]
  ELSE IF late THEN [l EXCEPT !.ret = "ErrTimeout"]
  ELSE l

\* The registry announces a global; the call still listens.
GlobalEvent ==
  /\ op = "list" /\ ~lst.done /\ lst.n < MaxGlobals
  /\ \E matches \in BOOLEAN : lst' = GlobalClosure(lst, matches)
  /\ UNCHANGED <<baseVars, bq, ctx, lk, syn, arc, lp>>

\* The done event of the sync request: done_clone.store(true)
DoneEvent ==
  /\ op = "list" /\ ~lst.done
  /\ lst' = [lst EXCEPT !.done = TRUE]
  /\ UNCHANGED <<baseVars, bq, ctx, lk, syn, arc, lp>>

\* One turn of the collecting loop in which select takes the channel's arm;
\* the arm is ready when the channel holds a message.
CollectReceive ==
  /\ op = "list" /\ lst.ret = "none" /\ lst.chan # <<>>
  /\ lst' = ReceiveArm(lst)
  /\ UNCHANGED <<baseVars, bq, ctx, lk, syn, arc, lp>>

\* One turn in which select takes the ready(()) arm; that arm is always
\* ready, and select picks among the ready arms at random.
CollectReady ==
  /\ op = "list" /\ lst.ret = "none"
  /\ \E late \in BOOLEAN : lst' = ReadyArm(lst, late)
  /\ UNCHANGED <<baseVars, bq, ctx, lk, syn, arc, lp>>

InitList ==
  /\ op = "list" /\ w = NewWaiter(BadFd, 0, DefaultTimeout)
  /\ cards = NoCard /\ InitIdle
  /\ dma = NoDma /\ buffer = NoBuffer /\ got = NoCall /\ InitNoDrm /\ tl = NoTimeline
  /\ acq = NoAcquire /\ tf = NoTimeoutFuture /\ tmr = NoTmr /\ pool = NoPool
  /\ bq = Unused /\ ctx = Unused /\ lk = Unused /\ syn = Unused
  /\ arc = Unused /\ lp = Unused
  /\ lst = NewListing

NextList == GlobalEvent \/ DoneEvent \/ CollectReceive \/ CollectReady

SpecList == InitList /\ [][NextList]_vars

\* ------------------- meta.rs / buffer.rs, a view over a buffer's metadata
\* Buffer::get_sync_timeline_metadata hands the block's address, which lies
\* inside the buffer's memory, to SyncTimelineRef::from_raw, and from_raw
\* hands it to Arc::from_raw.  An Arc keeps its strong and its weak count in
\* the two words in front of the data it points at.  Here those words are
\* buffer memory that no Arc allocated, so what they hold is not determined
\* by the program: arc.strong and arc.weak start at any value of Words.  A
\* negative n stands for the wrapped value 2^64 + n.  arc.views counts the
\* live views and arc.made the views made so far.
Words == 0..MaxWord

NewBlockMemory(s, k) ==
  [strong |-> s, weak |-> k, strong0 |-> s, weak0 |-> k,
   block |-> "allocated", views |-> 0, made |-> 0, aborted |-> FALSE]

\* Arc::from_raw: the pointer is taken as it is, no count is touched
Arc_from_raw(m) == [m EXCEPT !.views = @ + 1, !.made = @ + 1]

\* Arc::clone: fetch_add on the strong count, abort above isize::MAX
Arc_clone(m) ==
  IF m.strong < 0
    THEN [m EXCEPT !.strong = @ + 1, !.aborted = TRUE]
    ELSE [m EXCEPT !.strong = @ + 1, !.views = @ + 1, !.made = @ + 1]

\* Drop for Arc: fetch_sub on the strong count; the one that finds 1 drops
\* the implicit weak reference, and the weak count that was 1 frees the
\* allocation
Arc_drop(m) ==
  IF m.strong # 1
    THEN [m EXCEPT !.strong = @ - 1, !.views = @ - 1]
  ELSE IF m.weak # 1
    THEN [m EXCEPT !.strong = 0, !.weak = @ - 1, !.views = @ - 1]
  ELSE [m EXCEPT !.strong = 0, !.weak = 0, !.views = @ - 1, !.block = "freed"]

ArcLive == op = "arc" /\ arc.block = "allocated" /\ ~arc.aborted

\* Buffer::get_sync_timeline_metadata on a buffer that has the block
ObtainView ==
  /\ ArcLive /\ arc.views < MaxRefs /\ arc.made < MaxViews
  /\ arc' = Arc_from_raw(arc)
  /\ UNCHANGED <<baseVars, bq, ctx, lk, syn, lst, lp>>

\* Clone for SyncTimelineRef
CloneView ==
  /\ ArcLive /\ arc.views > 0 /\ arc.views < MaxRefs /\ arc.made < MaxViews
  /\ arc' = Arc_clone(arc)
  /\ UNCHANGED <<baseVars, bq, ctx, lk, syn, lst, lp>>

\* A SyncTimelineRef obtained from the buffer goes out of scope.
DropView ==
  /\ ArcLive /\ arc.views > 0
  /\ arc' = Arc_drop(arc)
  /\ UNCHANGED <<baseVars, bq, ctx, lk, syn, lst, lp>>

InitView ==
  /\ op = "arc" /\ w = NewWaiter(BadFd, 0, DefaultTimeout)
  /\ cards = NoCard /\ InitIdle
  /\ dma = NoDma /\ buffer = NoBuffer /\ got = NoCall /\ InitNoDrm /\ tl = NoTimeline
  /\ acq = NoAcquire /\ tf = NoTimeoutFuture /\ tmr = NoTmr /\ pool = NoPool
  /\ bq = Unused /\ ctx = Unused /\ lk = Unused /\ syn = Unused
  /\ lst = Unused /\ lp = Unused
  /\ \E s \in Words, k \in Words : arc = NewBlockMemory(s, k)

NextView == ObtainView \/ CloneView \/ DropView

SpecView == InitView /\ [][NextView]_vars

\* ------------------------------------- loop_/ref_.rs, loop_/owned.rs
\* lp.name is the name field of the pw_loop (None for a null pointer); the
\* loop has no other field the wrappers read.  A value is a string, here a
\* number of LoopValues.  Whether pw_loop_set_name succeeds is the
\* environment's choice.
LoopKeys == {"loop.name", "loop.class", "loop.rt-prio", "thread.affinity", "custom"}
LoopValues == 0..MaxVal

\* Loop::new
Loop_new == [name |-> None, call |-> "new", key |-> "none", value |-> None,
             ret |-> "Ok"]

\* LoopRef::set_name
set_name(l, name, ok) ==
  IF ok THEN [l EXCEPT !.name = name, !.ret = "Ok"]
  ELSE [l EXCEPT !.ret = "Err"]

\* LoopRef::set_property: loop.name goes to set_name, every other key is
\* logged and answered with Ok
set_property(l, key, value, ok) ==
  IF key = "loop.name" THEN set_name(l, value, ok)
  ELSE [l EXCEPT !.ret = "Ok"]

\* LoopRef::get_property
get_property(l, key) == IF key = "loop.name" THEN l.name ELSE None

\* LoopRef::set_class, set_rt_priority, set_cpu_affinity
set_class(l, class, ok) == set_property(l, "loop.class", class, ok)
set_rt_priority(l, priority, ok) == set_property(l, "loop.rt-prio", priority, ok)
set_cpu_affinity(l, cpu_ids, ok) == set_property(l, "thread.affinity", cpu_ids, ok)

\* LoopRef::class
class(l) == get_property(l, "loop.class")

\* LoopBuilder::build for a builder with name, class, affinity and priority
\* (None: not configured); the first failing setter ends the build
Build(cfg, ok) ==
  LET l0 == Loop_new
      l1 == IF cfg.name # None THEN set_name(l0, cfg.name, ok) ELSE l0
      l2 == IF l1.ret # "Ok" THEN l1
            ELSE IF cfg.class # None THEN set_class(l1, cfg.class, ok) ELSE l1
      l3 == IF l2.ret # "Ok" THEN l2
            ELSE IF cfg.affinity # None THEN set_cpu_affinity(l2, cfg.affinity, ok) ELSE l2
      l4 == IF l3.ret # "Ok" THEN l3
            ELSE IF cfg.priority # None THEN set_rt_priority(l3, cfg.priority, ok) ELSE l3
  IN l4

LoopSetName ==
  /\ op = "loop"
  /\ \E name \in LoopValues, ok \in BOOLEAN :
       lp' = [set_name(lp, name, ok) EXCEPT
                !.call = "set_name", !.key = "loop.name", !.value = name]
  /\ UNCHANGED <<baseVars, bq, ctx, lk, syn, lst, arc>>

LoopSetProperty ==
  /\ op = "loop"
  /\ \E key \in LoopKeys, value \in LoopValues, ok \in BOOLEAN :
       lp' = [set_property(lp, key, value, ok) EXCEPT
                !.call = "set_property", !.key = key, !.value = value]
  /\ UNCHANGED <<baseVars, bq, ctx, lk, syn, lst, arc>>

LoopSetClass ==
  /\ op = "loop"
  /\ \E c \in LoopValues, ok \in BOOLEAN :
       lp' = [set_class(lp, c, ok) EXCEPT
                !.call = "set_class", !.key = "loop.class", !.value = c]
  /\ UNCHANGED <<baseVars, bq, ctx, lk, syn, lst, arc>>

\* A new loop from a builder; lp.value keeps the class configured.
LoopBuild ==
  /\ op = "loop"
  /\ \E n, c, a, p \in LoopValues \cup {None}, ok \in BOOLEAN :
       lp' = [Build([name |-> n, class |-> c, affinity |-> a, priority |-> p], ok)
                EXCEPT !.call = "build", !.key = "loop.class", !.value = c]
  /\ UNCHANGED <<baseVars, bq, ctx, lk, syn, lst, arc>>

InitLoop ==
  /\ op = "loop" /\ w = NewWaiter(BadFd, 0, DefaultTimeout)
  /\ cards = NoCard /\ InitIdle
  /\ dma = NoDma /\ buffer = NoBuffer /\ got = NoCall /\ InitNoDrm /\ tl = NoTimeline
  /\ acq = NoAcquire /\ tf = NoTimeoutFuture /\ tmr = NoTmr /\ pool = NoPool
  /\ bq = Unused /\ ctx = Unused /\ lk = Unused /\ syn = Unused
  /\ lst = Unused /\ arc = Unused
  /\ lp = Loop_new

NextLoop == LoopSetName \/ LoopSetProperty \/ LoopSetClass \/ LoopBuild

SpecLoop == InitLoop /\ [][NextLoop]_vars

\* ----------------------------------------------------------------- claims
Count(seq, c) == Len(SelectSeq(seq, LAMBDA x : x = c))
NoRepeat(seq) == \A i, j \in 1..Len(seq) : seq[i] = seq[j] => i = j
WaitDone == op = "wait" /\ pc = "idle" /\ npolls > 0
HasDevice == FirstDrmCard(cards, 0) >= 0

\* C1: a poll of a SyncObjTimelineWaiter (or of a SyncFuture) that reads an
\* elapsed time beyond the timeout returns the timeout error, never Ok, for
\* every target point and kernel state, and issues no kernel call.
C1_DeadlineFirst ==
  (op \in {"wait", "sync"} /\ npolls > 0 /\ pollLate) =>
     (pc = "idle" /\ last = "ErrTimeout" /\ calls = <<>>)

\* C1 witness: the first poll comes after the deadline while the kernel
\* timeline has already reached a target > 0; the poll returned the timeout.
C1_Witness ==
  /\ WaitDone /\ npolls = 1 /\ pollLate
  /\ w.timeline_point > 0 /\ kpoint >= w.timeline_point
  /\ w.timeline_fd = DrmFd /\ HasDevice
  /\ last = "ErrTimeout"

\* C2: with target point 0 and the deadline not elapsed, the first poll of a
\* waiter returns Ok with no kernel call at all, for any descriptor.
C2_ZeroFastPath ==
  (op = "wait" /\ npolls = 1 /\ w.timeline_point = 0 /\ ~pollLate) =>
     (pc = "idle" /\ last = "Ok" /\ calls = <<>>)

\* C2 witness: a first poll on the invalid descriptor with point 0 returned Ok.
C2_Witness ==
  /\ WaitDone /\ npolls = 1 /\ ~pollLate
  /\ w.timeline_point = 0 /\ w.timeline_fd = BadFd
  /\ last = "Ok"

\* C3: a waiter with target > 0 on a descriptor that fails the DRM probe
\* resolves with an error on every poll: never Ok, never Pending; inside the
\* deadline the error is the invalid-descriptor error.
C3_InvalidFdFails ==
  (op = "wait" /\ npolls > 0 /\ w.timeline_point > 0 /\ w.timeline_fd \in {BadFd, SyncobjFd}) =>
     /\ pc = "idle"
     /\ last \in Errors
     /\ ~pollLate => last = "ErrInvalidFd"

\* C3 witness: a first poll inside the deadline on a non-DRM descriptor with
\* target > 0 returned the invalid-descriptor error.
C3_Witness ==
  /\ WaitDone /\ npolls = 1 /\ ~pollLate
  /\ w.timeline_point > 0 /\ w.timeline_fd = SyncobjFd
  /\ last = "ErrInvalidFd"

\* C4: a waiter with target > 0 returns Ok (or is marked completed) only if
\* a timeline query of this wait returned a value >= the target or the
\* kernel wrote the eventfd it had been given for the target.
C4_OkOnlyIfKernelReported ==
  (op = "wait" /\ w.timeline_point > 0 /\ (last = "Ok" \/ w.completed)) =>
     (maxQuery >= w.timeline_point \/ kWrote)

\* C4 witness: a wait with target > 0 returned Ok after the kernel wrote its
\* eventfd, no query having shown the target reached.
C4_Witness ==
  /\ WaitDone /\ w.timeline_point > 0 /\ last = "Ok"
  /\ maxQuery < w.timeline_point /\ kWrote

\* C5 (as claimed): a buffer-availability wait (SyncFuture) with acquire
\* point > 0 returns Ok only when the kernel timeline has reached the point.
C5_AvailableOnlyWhenSignaled ==
  (op = "sync" /\ w.timeline_point > 0 /\ last = "Ok") => kpoint >= w.timeline_point

\* C6 (as claimed): the validity probe is applied to the DRM device, not to
\* the timeline descriptor: with a DRM device present, a wait or a signal
\* with target > 0 on a genuine syncobj descriptor is not rejected as an
\* invalid descriptor.
C6_ProbeOnDevice ==
  (/\ op \in {"wait", "signal"} /\ pc = "idle" /\ npolls > 0 /\ ~pollLate
   /\ w.timeline_fd = SyncobjFd /\ w.timeline_point > 0 /\ HasDevice) =>
     last # "ErrInvalidFd"

\* C7 (as claimed): unless the kernel signals the target or writes the
\* eventfd, a waiter that returned Pending and whose deadline has passed
\* resolves with the timeout error (or is at least woken for the poll that
\* will return it).
C7_PendingTimesOut ==
  (op = "wait" /\ pc = "idle" /\ last = "Pending" /\ now > w.timeout)
     ~> (last = "ErrTimeout" \/ woken \/ kWrote \/ kpoint >= w.timeline_point)

\* C8 (as claimed): a wait with target > 0 returns Ok only when its most
\* recent timeline query, also after a drained eventfd, showed a value >= the
\* target.
C8_RequeryAfterDrain ==
  (op = "wait" /\ pc = "idle" /\ w.timeline_point > 0 /\ last = "Ok") =>
     lastQuery >= w.timeline_point

\* C9 (as claimed): a wait returns Pending at most the default maximum
\* number of times.
C9_BoundedSuspensions == pendings <= DefaultMaxSuspensions

\* C10: every poll of a SyncObjTimelineSignaler resolves (never Pending); the
\* signal ioctl is issued at most once, as the last of validation, device
\* lookup and fd-to-handle, each made once and successful; a poll that
\* failed in an earlier step issued no signal ioctl; Ok means the signal
\* ioctl was issued.
C10_SignalerOneShot ==
  (op = "signal" /\ npolls > 0) =>
     /\ last \in Errors \cup {"Ok"}
     /\ NoRepeat(calls)
     /\ Count(calls, "drm_syncobj_timeline_signal") > 0 =>
          /\ calls = <<"is_drm_fd", "find_drm_device_fd", "fd_to_drm_handle",
                       "drm_syncobj_timeline_signal">>
          /\ last \in {"Ok", "ErrSignal"}
          /\ w.timeline_fd = DrmFd /\ HasDevice
     /\ last \in {"ErrInvalidFd", "ErrFindDevice", "ErrHandle"} =>
          Count(calls, "drm_syncobj_timeline_signal") = 0
     /\ last = "Ok" => Count(calls, "drm_syncobj_timeline_signal") = 1

\* C10 witness: a signaler poll returned Ok and the kernel timeline stands
\* at the signalled point or beyond.
C10_Witness ==
  /\ op = "signal" /\ npolls = 1 /\ last = "Ok"
  /\ w.timeline_point > 0 /\ kpoint >= w.timeline_point
  /\ Count(calls, "drm_syncobj_timeline_signal") = 1

\* C11: in sync_dma_buf the release point is signalled only after the wait on
\* the acquire point resolved Ok; when the acquire wait fails or times out,
\* no release signal is issued and the wait's error is what the call returns.
C11_ReleaseAfterAcquire ==
  /\ Count(dma.sigCalls, "drm_syncobj_timeline_signal") > 0 =>
       (dma.acquire = "Ok" /\ last = "Ok" /\ pc = "idle")
  /\ dma.rpoint > 0 => dma.acquire = "Ok"
  /\ (dma.stage = "done" /\ last \in Errors) =>
       /\ dma.sigCalls = <<>>
       /\ dma.rpoint = 0
       /\ dma.result = last
  /\ dma.stage = "acquire" => (dma.sigCalls = <<>> /\ dma.rpoint = 0 /\ dma.result = "none")

\* C11 witness: the acquire wait on a point > 0 suspended, then resolved Ok,
\* and the release point was signalled in the kernel.
C11_Witness ==
  /\ dma.stage = "done" /\ dma.acquire = "Ok" /\ dma.result = "Ok"
  /\ w.timeline_point > 0 /\ pendings > 0
  /\ dma.release_point > 0 /\ dma.rpoint = dma.release_point
  /\ Count(dma.sigCalls, "drm_syncobj_timeline_signal") = 1

\* C12: a failure of a kernel call made by a waiter poll (device lookup,
\* fd-to-handle, timeline query, eventfd creation, eventfd registration, or
\* an eventfd read error other than would-block) ends that poll with an
\* error: the result is neither Pending nor Ok, the wait is not marked
\* completed, and the failed call is the last call the poll makes (nothing
\* is called after the failure, so the call is not made again).
C12_KernelFailureResolves ==
  (op = "wait" /\ failed # {}) =>
     /\ pc = "idle"
     /\ last \in Errors
     /\ ~w.completed
     /\ Cardinality(failed) = 1
     /\ \A c \in failed : calls[Len(calls)] = c

\* C12 witness: in a poll whose timeline query succeeded below the target,
\* the registration ioctl failed and the poll returned the registration error.
C12_Witness ==
  /\ WaitDone /\ failed = {"drm_syncobj_eventfd_register"}
  /\ Count(calls, "drm_syncobj_timeline_query") = 1
  /\ last = "ErrRegister" /\ w.event_fd

\* The sync-object elements of the buffer's data array, in array order.
SyncObjs == SelectSeq(datas_mut(buffer), LAMBDA d : d.type = "SyncObj")

\* C13 (as claimed): timeline-fd extraction (both the one over a data slice
\* and Buffer::get_sync_fds) returns the descriptors of the first and of the
\* second sync-object element in array order, wherever they sit among other
\* elements and whatever follows; it fails when fewer than two are present.
C13_FirstTwoSyncObjs ==
  got.fn \in {"extract_timeline_fds_from_buffer_data", "get_sync_fds"} =>
     IF Len(SyncObjs) >= 2
       THEN /\ got.res \in {"Ok", "Some"}
            /\ got.acquire_fd = SyncObjs[1].fd
            /\ got.release_fd = SyncObjs[2].fd
       ELSE got.res \in {"Err", "None"}

\* Buffer::get_sync_fds alone does what C13 says.
C13_GetSyncFdsOnly == got.fn = "get_sync_fds" => C13_FirstTwoSyncObjs

\* The metadata blocks that carry the sync-timeline tag and non-null data.
TimelineBlocks ==
  IF buffer.null \/ buffer.metas_null THEN {}
  ELSE {i \in 1..Len(buffer.metas) :
          buffer.metas[i].type_ = SyncTimelineTag /\ buffer.metas[i].data # NullPtr}

\* C14: get_sync_timeline_metadata returns a present view exactly when the
\* buffer descriptor is non-null, its metadata array is non-empty and some
\* block carries the sync-timeline tag with non-null data; the view is over
\* the first such block; otherwise the result is the absent variant.
C14_MetadataPresence ==
  got.fn = "get_sync_timeline_metadata" =>
     IF TimelineBlocks # {}
       THEN /\ got.res = "Some"
            /\ got.block = buffer.metas[CHOOSE i \in TimelineBlocks :
                                          \A j \in TimelineBlocks : i <= j].data
       ELSE got.res = "None" /\ got.block = NullPtr

\* C14 witness: the view is over the second tagged block, the first tagged
\* block having a null data pointer.
C14_Witness ==
  /\ got.fn = "get_sync_timeline_metadata" /\ got.res = "Some"
  /\ Len(buffer.metas) >= 2
  /\ buffer.metas[1].type_ = SyncTimelineTag /\ buffer.metas[1].data = NullPtr
  /\ got.block = 2

\* C15: fd_to_drm_handle issues the FD-to-handle ioctl only if the device
\* answers the version query: on an invalid device the result is the
\* invalid-device error and no conversion ioctl is issued; when the
\* conversion ioctl returns non-zero the result is the OS error; otherwise
\* the handle the kernel wrote is returned.
C15_HandleConversion ==
  got.fn = "fd_to_drm_handle" =>
     /\ Count(got.ioctls, "DRM_IOCTL_SYNCOBJ_FD_TO_HANDLE") > 0 => got.devValid
     /\ ~got.devValid =>
          (got.res = "InvalidInput" /\ got.ioctls = <<"DRM_IOCTL_VERSION">>)
     /\ (got.devValid /\ ~got.ret0) => got.res = "OsError"
     /\ (got.devValid /\ got.ret0) =>
          (got.res = "Ok" /\ got.handle = got.kernel_handle)

\* C15 witness: on a device that find_drm_device_fd returned, a conversion
\* succeeded and returned the kernel's handle.
C15_Witness ==
  /\ got.fn = "fd_to_drm_handle" /\ got.devValid /\ got.res = "Ok"
  /\ got.handle \in KernelHandles /\ Len(devs) > 0

ValidCards == {i \in Cards : cards[i] = "drm"}
LowestValid == CHOOSE i \in ValidCards : \A j \in ValidCards : i <= j

C17_NoProbeLeak ==
  got.fn = "find_drm_device_fd" =>
     IF got.res = "Ok"
       THEN /\ got.fd \notin DOMAIN got.before
            /\ DOMAIN got.after = DOMAIN got.before \cup {got.fd}
            /\ \A n \in DOMAIN got.before : got.after[n] = got.before[n]
       ELSE got.after = got.before

\* C17 witness: no card validates but two cards open (so two probe
\* descriptors were opened), and the call returned NotFound.
C17_Witness ==
  /\ got.fn = "find_drm_device_fd" /\ got.res = "NotFound"
  /\ cards[0] = "other" /\ cards[1] = "other"
  /\ Len(got.probed) = NumCards

\* C18 (as claimed): a descriptor held by a live DrmDeviceFd is open (it is
\* not closed while its owner is alive), and every close issued by a drop
\* hits an open descriptor (none is closed a second time).
C18_ClosedExactlyOnce ==
  op = "drm" =>
     /\ \A k \in 1..Len(devs) : devs[k] >= 0 => devs[k] \in DOMAIN fdtab
     /\ \A j \in 1..Len(closes) : closes[j].open

\* C19: over any polls of an awaited wait and its drop, every descriptor the
\* wait opened is closed: no temporary DRM device descriptor is open outside
\* the call that opened it; the wait creates at most one eventfd, which is
\* open exactly while the wait holds it and closed once the wait is dropped.
C19_WaitClosesDescriptors ==
  op = "wait" =>
     /\ tmpOpen = 0
     /\ efdMade <= 1
     /\ efdOpen = IF w.event_fd THEN 1 ELSE 0
     /\ dropped => (efdOpen = 0 /\ ~w.event_fd)

\* C19 witness: a wait that suspended with its eventfd registered in the
\* kernel was dropped by the caller; its one eventfd is closed.
C19_Witness ==
  /\ op = "wait" /\ dropped /\ last = "Pending" /\ efdRegistered
  /\ efdMade = 1 /\ efdOpen = 0 /\ tmpOpen = 0
  /\ Count(calls, "find_drm_device_fd") = 2

\* C20: a timeline created by SyncTimelineRef::new(a, r) reads back
\* acquire_point() = a, release_point() = r and flags() = 0 before any other
\* operation, for all a and r; the default timeline reads back 0 for all three.
C20_NewReadsBack ==
  /\ got.fn = "SyncTimelineRef::new" =>
       (acquire_point(tl) = got.a /\ release_point(tl) = got.r /\ flags(tl) = 0)
  /\ got.fn = "SyncTimelineRef::default" =>
       (acquire_point(tl) = 0 /\ release_point(tl) = 0 /\ flags(tl) = 0)

\* C20 witness: new(MaxPoint, 1) was the last operation and the timeline
\* reads back (MaxPoint, 1, 0).
C20_Witness ==
  /\ got.fn = "SyncTimelineRef::new" /\ got.a = MaxPoint /\ got.r = 1
  /\ acquire_point(tl) = MaxPoint /\ release_point(tl) = 1 /\ flags(tl) = 0

\* C21 (as claimed): while a timeline block is alive its stored
\* acquire_point and release_point never decrease: no set_acquire_point,
\* signal_release or write through release_point_mut lowers a stored point.
C21_PointsNeverDecrease ==
  [][(tl.refs > 0 /\ tl'.refs > 0) =>
       (/\ acquire_point(tl') >= acquire_point(tl)
        /\ release_point(tl') >= release_point(tl))]_vars

\* C22 (as claimed): set_acquire_point and signal_release on a shared
\* SyncTimelineRef (a clone exists) both return an error, never panic, and
\* leave the block as it was.
C22_SharedMutationIsError ==
  [][(tl.refs > 1 /\ got'.fn \in {"set_acquire_point", "signal_release"}) =>
       (got'.res = "Err" /\ tl' = tl)]_vars

\* C23 (as claimed): no wait spawns an OS thread: over any polls of a
\* TimelineAcquireFuture the number of threads it has created is 0 (a
\* pending wait is woken by eventfd readiness only).
C23_NoThreadSpawned == op = "acquire" => acq.threads = 0

\* C30: if every scheduled wake-up leads to a poll, a TimelineAcquireFuture
\* resolves: a poll returns Ok when the block's acquire_point is >= the
\* target and Pending when it is not, except poll number max_polls + 1,
\* which returns the maximum-poll error whatever the point is; poll_count
\* never exceeds max_polls.
C30_AcquireResolves ==
  /\ [](op = "acquire" => acq.poll_count <= acq.max_polls)
  /\ [][(op = "acquire" /\ acq'.polls = acq.polls + 1) =>
          acq'.last = IF acq'.polls = acq.max_polls + 1 THEN "ErrMaxPolls"
                      ELSE IF tl.acquire_point >= acq.acquire_point THEN "Ok"
                      ELSE "Pending"]_vars
  /\ <>(op = "acquire" => acq.last \in {"Ok", "ErrMaxPolls"})

\* C30 witness: poll max_polls + 1 returned the maximum-poll error although
\* the producer had raised the point to the target after poll max_polls.
C30_Witness ==
  /\ op = "acquire" /\ acq.last = "ErrMaxPolls"
  /\ acq.polls = acq.max_polls + 1 /\ acq.poll_count = acq.max_polls
  /\ acq.threads = acq.max_polls
  /\ tl.acquire_point >= acq.acquire_point

\* C24 (as claimed): get() returns Some(v) whenever at least two of the three
\* stored copies equal v (so after set(v), and after the corruption of any
\* single copy), and None only when no two copies agree on a value.
C24_MajorityVote ==
  got.fn = "TMR::get" =>
     /\ \A v \in TmrValues :
          Cardinality({i \in 1..3 : tmr[i] = v}) >= 2 => got.ret = v
     /\ got.ret = None =>
          \A v \in TmrValues : Cardinality({i \in 1..3 : tmr[i] = v}) < 2

\* C25: a dequeued buffer is queued back to its stream at most once: while a
\* Buffer holds it, not at all; once the Buffer is dropped, exactly once, by
\* Drop; after into_raw not by Drop (the pointer's new holder queues it); no
\* sequence of dequeue, drop and into_raw queues it twice.
C25_QueuedBackOnce ==
  op = "stream" =>
     \A b \in BufPtrs :
        /\ pool[b].queues <= 1
        /\ pool[b].where = "held" => pool[b].queues = 0
        /\ pool[b].where = "raw" => pool[b].byDrop = 0
        /\ (got.fn = "drop" /\ got.buf = b) =>
              (pool[b].where = "stream" /\ pool[b].queues = 1 /\ pool[b].byDrop = 1)
        /\ (got.fn = "into_raw" /\ got.buf = b) =>
              (pool[b].where = "raw" /\ pool[b].queues = 0)

\* C25 witness: one buffer came back through Drop, another was handed over
\* with into_raw and queued by its new holder, a third is held; the last
\* call dropped a Buffer.
C25_Witness ==
  /\ op = "stream" /\ got.fn = "drop"
  /\ \E a, b, c \in BufPtrs :
       /\ a = got.buf /\ pool[a] = [where |-> "stream", queues |-> 1, byDrop |-> 1]
       /\ pool[b] = [where |-> "stream", queues |-> 1, byDrop |-> 0]
       /\ pool[c].where = "held"

\* C26 (as claimed): whenever a SyncObjTimelineWaiter poll returns Pending,
\* its eventfd exists and is registered with the kernel for the target
\* point, and the task's waker is stored for readiness of that eventfd; also
\* on the path where the eventfd was reported ready but the read would block.
\* (A task woken while the poll ran counts as armed: it is polled again.)
C26_PendingIsArmed ==
  [][(op = "wait" /\ pc = "polling" /\ pc' = "idle" /\ last' = "Pending") =>
       (w'.event_fd /\ efdRegistered' /\ (wakerReg' \/ woken'))]_vars

\* C27 (as claimed): once a waiter has resolved Ok through the kernel path
\* (its completed flag is set), every later poll of it returns Ok without
\* issuing a kernel call.
C27_CompletedStaysOk ==
  [][(op = "wait" /\ w.completed /\ npolls' = npolls + 1) =>
       (pc' = "idle" /\ last' = "Ok" /\ calls' = <<>>)]_vars

\* C27 (amended): once a waiter has resolved Ok through the kernel path,
\* every later poll of it returns without issuing a kernel call: Ok while
\* the deadline has not elapsed, the timeout error once it has.
C27_CompletedNoKernelCall ==
  [][(op = "wait" /\ w.completed /\ npolls' = npolls + 1) =>
       /\ pc' = "idle" /\ calls' = <<>>
       /\ last' = IF now > w.timeout THEN "ErrTimeout" ELSE "Ok"]_vars

\* C27 witness: the waiter suspended, resolved Ok by draining its eventfd
\* (no query had shown the point reached), and a third poll returned Ok with
\* no kernel call.
C27_Witness ==
  /\ op = "wait" /\ pc = "idle" /\ w.completed /\ npolls = 3 /\ pendings = 1
  /\ last = "Ok" /\ calls = <<>> /\ kWrote /\ maxQuery < w.timeline_point

\* C28: every poll of a TimeoutFuture checks the poll-count bound first, then
\* the deadline, and only then polls the inner future: the inner future is
\* not polled once poll_count has reached max_polls or the deadline has
\* passed, poll_count never exceeds max_polls, and the result is Ok(v)
\* exactly when the inner future returned Ready(v) on a poll that passed
\* both checks.
C28_ChecksBeforeInner ==
  [][(op = "timeout" /\ tf'.polls = tf.polls + 1) =>
       /\ tf'.poll_count <= tf.max_polls
       /\ IF tf.poll_count >= tf.max_polls
            THEN tf'.last = "MaxPollsExceeded" /\ tf'.innerPolls = tf.innerPolls
          ELSE IF now > tf.deadline
            THEN tf'.last = "DeadlineExceeded" /\ tf'.innerPolls = tf.innerPolls
          ELSE /\ tf'.innerPolls = tf.innerPolls + 1
               /\ tf'.last = (IF tf.answer # "none" THEN "Ok" ELSE "Pending")
               /\ tf'.last = "Ok" => tf'.value = tf.answer]_vars

\* C28 witness: the value arrived after poll number max_polls (1000); the
\* next poll returned MaxPollsExceeded without polling the inner future.
C28_Witness ==
  /\ op = "timeout" /\ tf.last = "MaxPollsExceeded" /\ tf.answer # "none"
  /\ tf.max_polls = DefaultMaxSuspensions /\ tf.poll_count = tf.max_polls
  /\ tf.polls = tf.max_polls + 1 /\ tf.innerPolls = tf.max_polls
  /\ now <= tf.deadline

\* C29 (as claimed): a TimeoutFuture whose inner future never completes and
\* never wakes its task still resolves, with DeadlineExceeded or
\* MaxPollsExceeded (so connect, sync and get_info resolve within their
\* timeout when the server never answers).
C29_ResolvesUnanswered ==
  <>(op = "timeout" =>
       (tf.answer # "none" \/ tf.last \in {"DeadlineExceeded", "MaxPollsExceeded"}))

\* C31: a BoundedQueue<T, N> behaves as a FIFO of capacity N.  With the
\* items held being those accepted and not yet popped: a push is rejected
\* exactly when N items are held, and then hands back the same item and
\* leaves the queue as it was; pop returns None exactly when no item is held
\* and otherwise the oldest item held; the items popped are, in order and
\* without repetition, the first of the items accepted.
C31_FifoOfCapacityN ==
  [][op = "queue" =>
       LET held == Len(bq.accepted) - Len(bq.popped)
       IN /\ bq'.call = "push" =>
               IF held = bq.q.n
                 THEN /\ bq'.ret = "Err" /\ bq'.item = bq'.offered
                      /\ bq'.q = bq.q /\ bq'.accepted = bq.accepted
                 ELSE /\ bq'.ret = "Ok"
                      /\ bq'.accepted = Append(bq.accepted, bq'.offered)
          /\ bq'.call = "pop_none" => held = 0 /\ bq'.q = bq.q
          /\ bq'.call = "pop" =>
               /\ held > 0
               /\ bq'.item = bq.accepted[Len(bq.popped) + 1]
          /\ bq'.popped = SubSeq(bq'.accepted, 1, Len(bq'.popped))]_vars

\* A full queue whose window has wrapped around rejects a push, and an item
\* pushed after the wrap has been popped.
C31_Witness ==
  /\ op = "queue" /\ bq.call = "pop" /\ bq.q.n > 1
  /\ Len(bq.popped) > bq.q.n
  /\ Len(bq.accepted) < bq.offered

\* The slots that hold an item: q.len slots from q.head on, wrapping around.
InWindow(q, i) == \E k \in 0..(q.len - 1) : (q.head + k) % q.n = i

\* C32: after any sequence of push and pop on a BoundedQueue with N > 0,
\* 0 <= len <= N, head < N, tail < N, tail = (head + len) mod N, and a slot
\* holds an item exactly when it is one of the len slots starting at head.
C32_QueueShape ==
  op = "queue" =>
    LET q == bq.q
    IN /\ 0 <= q.len /\ q.len <= q.n
       /\ q.head \in 0..(q.n - 1) /\ q.tail \in 0..(q.n - 1)
       /\ q.tail = (q.head + q.len) % q.n
       /\ \A i \in 0..(q.n - 1) : (q.items[i + 1] # None) <=> InWindow(q, i)

\* A window that wraps around the end of the array after items were popped.
C32_Witness ==
  /\ op = "queue" /\ bq.q.len > 1 /\ bq.q.tail <= bq.q.head
  /\ bq.q.head > 0 /\ Len(bq.popped) > 0

\* C33: whenever no start or stop call is in progress, the running flag of
\* an AsyncContext is true exactly when its thread loop is started.
C33_RunningIffStarted ==
  (op = "ctx" /\ ~ctx.dropped /\ \A t \in Threads : ctx.at[t] = "idle") =>
    (ctx.running <=> ctx.started)

\* C34: when an async operation that locks the thread loop has returned or
\* suspended, the thread-loop lock is not held.
C34_LockReleased ==
  (op = "lock" /\ lk.at = "idle") => lk.depth = 0

\* C35: two sync calls in flight on one core connection, made through the
\* same AsyncCore or through clones of it, never carry the same sequence
\* number.
C35_DistinctInFlight ==
  op = "coresync" =>
    \A i, j \in 1..Len(syn.flights) :
      (i # j /\ syn.flights[i].st = "waiting" /\ syn.flights[j].st = "waiting")
        => syn.flights[i].seq # syn.flights[j].seq

\* C36: a list_objects call that returns Ok returns exactly the globals of
\* the requested type announced before the done event, in order, none
\* dropped and none twice (at most MaxObjects of them are announced here).
C36_ListsAllAnnounced ==
  (op = "list" /\ lst.ret = "Ok") => lst.objects = lst.announced

\* C37: obtaining, cloning and dropping the views that
\* Buffer::get_sync_timeline_metadata returns never frees the buffer's
\* metadata block and never changes the memory in front of it.
C37_ViewOnlyBorrows ==
  op = "arc" =>
    /\ arc.block = "allocated"
    /\ arc.strong = arc.strong0 /\ arc.weak = arc.weak0

\* C38: after set_property(k, v), set_class(c) or a build with class c has
\* returned Ok, the matching getter returns the value that was set:
\* get_property(k) is v and class() is c.
C38_SetThenGet ==
  (op = "loop" /\ lp.call \in {"set_property", "set_class", "build"}
     /\ lp.ret = "Ok" /\ lp.value # None) =>
    get_property(lp, lp.key) = lp.value

TypeOK ==
  /\ op \in {"wait", "sync", "signal", "buffer", "drm", "timeline", "acquire",
             "tmr", "stream", "timeout", "queue", "ctx", "lock", "coresync",
             "list", "arc", "loop"}
  /\ last \in {"none", "Ok", "Pending"} \cup Errors
  /\ pc \in {"idle", "polling"}
  /\ npolls \in 0..StormPolls
  /\ now \in 0..MaxTime
  /\ kpoint \in Points
====
